---- MODULE Spec2Model ----
(***************************************************************************)
(* CEP-18 token with signature-authorised ("permit") payments.             *)
(*                                                                         *)
(* Two implementations of the token live in the repository and both are    *)
(* modelled: cep18-permit-token/src/lib.rs (impl = "permit") and           *)
(* contract/src/lib.rs (impl = "contract").  The variable impl is fixed at *)
(* installation and selects which code the entry points run.               *)
(*                                                                         *)
(* A dictionary is the function from the keys written so far to the value  *)
(* stored under each; a read of a key never written returns None.  Spec    *)
(* starts with every key present, DictSpec with the dictionaries as        *)
(* installation leaves them.                                               *)
(*                                                                         *)
(* The vault facilitator contract, final-facilitator/src/lib.rs, is a      *)
(* separate contract with its own named keys (variable facilitator); its   *)
(* entry points are the actions of FacSpec.                                *)
(*                                                                         *)
(* The host executes one entry point at a time and discards every write of *)
(* a call that reverts; an entry point is therefore one action, computed   *)
(* write by write on a working copy of the storage that is committed only  *)
(* when the call returns without reverting.                                *)
(***************************************************************************)
EXTENDS Integers, Sequences, FiniteSets, TLC

\* ------------------------------------------------------------------ bounds
MaxSupply == 2      \* total_supply minted at installation; amounts range over 1..MaxSupply
MaxNonce == 2       \* permits carry nonces 0..MaxNonce-1, so stored nonces stay within 0..MaxNonce
MaxTime == 1        \* block times and deadlines range over 0..MaxTime
U64Bits == 2        \* u64 is modelled at this width: u64::MAX is 2^U64Bits - 1
U256Bits == 2       \* U256 is modelled at this width: U256::MAX is 2^U256Bits - 1

\* ------------------------------------------------------------- input sets
Impls == {"permit", "contract"}
PublicKeys == {"KA"}          \* the keys permits are submitted for
AllKeys == {"KA", "KB"}         \* "KB" signs only forged permits
ZeroAccount == "Zero"
Accounts == {"A", "B", ZeroAccount}
Amounts == 1..MaxSupply
PermitNonces == 0..(MaxNonce - 1)
Times == 0..MaxTime
Deployer == "A"
OtherContract == "Y"
ApproveSpenders == {"B"}
ApproveOwners == {"A"}

\* AccountHash::from(&PublicKey) / PublicKey::to_account_hash: one-way and
\* injective on the keys in play; no key hashes to the all-zero account.
account_hash(pk) == IF pk = "KA" THEN "A" ELSE "B"

\* ----------------------------------------------------------- constants.rs
TRANSFER_EVENT == "Transfer"
APPROVAL_EVENT == "Approval"
PAYMENT_CLAIMED_EVENT == "PaymentClaimed"
EventNames == {TRANSFER_EVENT, APPROVAL_EVENT, PAYMENT_CLAIMED_EVENT}
CASPER_MESSAGE_PREFIX == "Casper Message:\nx402-casper"

insufficient_balance_error == "InsufficientBalance"
insufficient_allowance_error == "InsufficientAllowance"
invalid_nonce_error == "InvalidNonce"
invalid_signature_error == "InvalidSignature"
expired_error == "Expired"
zero_address_error == "ZeroAddress"

\* a panic: the wasm module traps and the host ends the call
Trap == "Trap"

u64_MAX == 2^U64Bits - 1
U256_MAX == 2^U256Bits - 1

VARIABLES
    impl,          \* which implementation is installed
    total_supply,  \* the value stored under the named key TOTAL_SUPPLY_KEY
    overflow_checks,   \* whether the build compiled overflow checks in (rustc -C overflow-checks)
    blocktime,     \* runtime::get_blocktime()
    balances,      \* dictionary "balances":   account -> U256
    allowances,    \* dictionary "allowances": <<owner, spender>> -> U256
    nonces,        \* dictionary "nonces":     account -> u64
    named_keys,    \* the event names e whose named key "event_<e>" exists
    last,          \* outcome of the most recent call: entry point, result, events it emitted
    accepted,      \* history: signer account, nonce and deadline of every accepted permit
    facilitator,   \* named keys of the vault facilitator contract
    contract_state \* the test-runner's ContractState, run beside the facilitator

tokenVars == <<impl, total_supply, overflow_checks, blocktime, balances, allowances, nonces, named_keys, accepted>>
vars == <<tokenVars, last, facilitator, contract_state>>

\* The contract's own hash, stored under CONTRACT_HASH_KEY at installation.
\* Installation is taken to have succeeded: the entry points find the hash
\* and the dictionaries that installation wrote.
get_contract_hash == "X"

\* ------------------------------------------------------------- storage.rs
\* st is the working copy of the storage during one call; st.emitted lists
\* the events emitted so far by the call, in emission order.
\* A dictionary is a function from the keys that were written to the value
\* last written.  storage::dictionary_get returns an Option, here a sequence
\* of at most one value: <<>> for a key that was never written.
dict_get(dict, key) == IF key \in DOMAIN dict THEN <<dict[key]>> ELSE <<>>
dict_set(dict, key, value) ==
    [k \in DOMAIN dict \cup {key} |-> IF k = key THEN value ELSE dict[k]]

\* Option::unwrap_or / unwrap_or_else
unwrap_or(option, default) == IF option = <<>> THEN default ELSE option[1]

get_balance(st, account) == unwrap_or(dict_get(st.balances, account), 0)
set_balance(st, account, balance) == [st EXCEPT !.balances = dict_set(@, account, balance)]
get_allowance(st, owner, spender) == unwrap_or(dict_get(st.allowances, <<owner, spender>>), 0)

\* set_allowance that adds the amount to the allowance stored
set_allowance_accumulates(st, owner, spender, amount) ==
    [st EXCEPT !.allowances =
        dict_set(@, <<owner, spender>>, get_allowance(st, owner, spender) + amount)]

set_allowance(st, owner, spender, amount) ==
    [st EXCEPT !.allowances = dict_set(@, <<owner, spender>>, amount)]

\* get_nonce that reads 1 for an account without an entry
get_nonce_starts_at_one(st, account) == unwrap_or(dict_get(st.nonces, account), 1)

get_nonce(st, account) == unwrap_or(dict_get(st.nonces, account), 0)

\* set_nonce that writes the nonce under every key of the dictionary
set_nonce_every_key(st, account, nonce) ==
    [st EXCEPT !.nonces = [k \in DOMAIN @ \cup {account} |-> nonce]]

set_nonce(st, account, nonce) == [st EXCEPT !.nonces = dict_set(@, account, nonce)]

\* ------------------------------------------------------- results of a call
Ok(st) == [res |-> "Ok", st |-> st]
Err(e, st) == [res |-> e, st |-> st]

\* -------------------------------------------------------------- arithmetic
\* `a + b` on u64: the primitive operator.  With overflow checks compiled in
\* a sum above u64::MAX panics; without them it wraps modulo 2^64.
u64_add(a, b) ==
    [value |-> (a + b) % (u64_MAX + 1), panics |-> overflow_checks /\ a + b > u64_MAX]

\* `a + b` on U256: impl Add of the uint crate, which panics on overflow in
\* every build.
U256_add(a, b) ==
    [value |-> (a + b) % (U256_MAX + 1), panics |-> a + b > U256_MAX]

\* increment_nonce that stores the value it read
increment_nonce_stale(st, account) ==
    LET current_nonce == get_nonce(st, account)
    IN Ok(set_nonce(st, account, current_nonce))

\* increment_nonce returns the new value; the working storage is returned here
increment_nonce(st, account) ==
    LET current_nonce == get_nonce(st, account)
        new_nonce == u64_add(current_nonce, 1)
    IN IF new_nonce.panics THEN Err(Trap, st)
       ELSE Ok(set_nonce(st, account, new_nonce.value))

\* ------------------------------------------------------------------ events
\* runtime::put_key("event_<name>", new_uref(data)): the named key of that
\* event name is created, or repointed at this event's data if it exists.
\* The data is kept for the events of the current call (st.emitted); of the
\* named keys the model keeps which ones exist.
emit_event(st, event_name, data) ==
    [st EXCEPT !.named_keys = @ \cup {event_name},
               !.emitted = Append(@, [name |-> event_name, data |-> data])]

emit_transfer_event(st, from, to, amount) ==
    emit_event(st, TRANSFER_EVENT, <<from, to, amount>>)
emit_approval_event(st, owner, spender, amount) ==
    emit_event(st, APPROVAL_EVENT, <<owner, spender, amount>>)

\* emit_payment_claimed_event that reports the nonce after the increment
emit_payment_claimed_event_new_nonce(st, user, recipient, amount, nonce) ==
    emit_event(st, PAYMENT_CLAIMED_EVENT, <<user, recipient, amount, get_nonce(st, user)>>)

emit_payment_claimed_event(st, user, recipient, amount, nonce) ==
    emit_event(st, PAYMENT_CLAIMED_EVENT, <<user, recipient, amount, nonce>>)

\* -------------------------------------------- cep18-permit-token/src/lib.rs
\* internal_transfer that writes the credit on the storage read before the debit
internal_transfer_lost_debit(st, from, to, amount) ==
    IF from = to THEN Ok(st)
    ELSE LET from_balance == get_balance(st, from)
             to_balance == get_balance(st, to)
         IN IF from_balance < amount THEN Err(insufficient_balance_error, st)
            ELSE LET new_to_balance == to_balance + amount
                     st2 == set_balance(st, to, new_to_balance)
                 IN Ok(emit_transfer_event(st2, from, to, amount))

\* internal_transfer whose balance check rejects a transfer of the whole balance
internal_transfer_off_by_one(st, from, to, amount) ==
    IF from = to THEN Ok(st)
    ELSE LET from_balance == get_balance(st, from)
             to_balance == get_balance(st, to)
         IN IF from_balance <= amount THEN Err(insufficient_balance_error, st)
            ELSE LET new_from_balance == from_balance - amount
                     new_to_balance == to_balance + amount
                     st1 == set_balance(st, from, new_from_balance)
                     st2 == set_balance(st1, to, new_to_balance)
                 IN Ok(emit_transfer_event(st2, from, to, amount))

\* internal_transfer without the early return for from = to
internal_transfer_no_self_check(st, from, to, amount) ==
    LET from_balance == get_balance(st, from)
        to_balance == get_balance(st, to)
    IN IF from_balance < amount THEN Err(insufficient_balance_error, st)
       ELSE LET new_from_balance == from_balance - amount
                new_to_balance == to_balance + amount
                st1 == set_balance(st, from, new_from_balance)
                st2 == set_balance(st1, to, new_to_balance)
            IN Ok(emit_transfer_event(st2, from, to, amount))

\* internal_transfer that refuses the all-zero account as sender or recipient
internal_transfer_rejects_zero_address(st, from, to, amount) ==
    IF from = ZeroAccount \/ to = ZeroAccount THEN Err(zero_address_error, st)
    ELSE IF from = to THEN Ok(st)
    ELSE LET from_balance == get_balance(st, from)
             to_balance == get_balance(st, to)
         IN IF from_balance < amount THEN Err(insufficient_balance_error, st)
            ELSE LET new_from_balance == from_balance - amount
                     new_to_balance == U256_add(to_balance, amount)
                     st1 == set_balance(st, from, new_from_balance)
                     st2 == set_balance(st1, to, new_to_balance.value)
                 IN IF new_to_balance.panics THEN Err(Trap, st)
                    ELSE Ok(emit_transfer_event(st2, from, to, amount))

internal_transfer(st, from, to, amount) ==
    IF from = to THEN Ok(st)
    ELSE LET from_balance == get_balance(st, from)
             to_balance == get_balance(st, to)
         IN IF from_balance < amount THEN Err(insufficient_balance_error, st)
            ELSE LET new_from_balance == from_balance - amount
                     new_to_balance == U256_add(to_balance, amount)
                     st1 == set_balance(st, from, new_from_balance)
                     st2 == set_balance(st1, to, new_to_balance.value)
                 IN IF new_to_balance.panics THEN Err(Trap, st)
                    ELSE Ok(emit_transfer_event(st2, from, to, amount))

do_transfer(st, caller, to, amount) == internal_transfer(st, caller, to, amount)

do_approve(st, caller, spender, amount) ==
    Ok(emit_approval_event(set_allowance(st, caller, spender, amount), caller, spender, amount))

\* do_transfer_from that leaves the allowance as it found it
do_transfer_from_keeps_allowance(st, caller, owner, to, amount) ==
    LET spender == caller
        current_allowance == get_allowance(st, owner, spender)
    IN IF current_allowance < amount THEN Err(insufficient_allowance_error, st)
       ELSE LET t == internal_transfer(st, owner, to, amount)
            IN IF t.res # "Ok" THEN t
               ELSE Ok(emit_approval_event(t.st, owner, spender, current_allowance))

do_transfer_from(st, caller, owner, to, amount) ==
    LET spender == caller
        current_allowance == get_allowance(st, owner, spender)
    IN IF current_allowance < amount THEN Err(insufficient_allowance_error, st)
       ELSE LET t == internal_transfer(st, owner, to, amount)
            IN IF t.res # "Ok" THEN t
               ELSE LET new_allowance == current_allowance - amount
                        st1 == set_allowance(t.st, owner, spender, new_allowance)
                    IN Ok(emit_approval_event(st1, owner, spender, new_allowance))

\* format!("{}:{}:{}:{}:{}:{}:{}", prefix, chain, contract, recipient, amount,
\* nonce, deadline): no field's rendering contains the delimiter after the
\* fixed prefix, so the string determines the fields and is modelled by them.
\* construct_message that writes the deadline before the nonce
construct_message_swapped(chain_name, contract_hash, recipient, amount, nonce, deadline) ==
    <<CASPER_MESSAGE_PREFIX, chain_name, contract_hash, recipient, amount, deadline, nonce>>

construct_message(chain_name, contract_hash, recipient, amount, nonce, deadline) ==
    <<CASPER_MESSAGE_PREFIX, chain_name, contract_hash, recipient, amount, nonce, deadline>>

\* A signature argument is a string: "signed" is the hex encoding of a
\* signature made with the secret key of `key` over `msg`; "not_hex" is a
\* string hex::decode rejects; "garbage" is valid hex whose bytes are not a
\* signature of anything.
Sign(key, msg) == [kind |-> "signed", key |-> key, msg |-> msg]
NotHex == [kind |-> "not_hex", key |-> "none", msg |-> <<>>]
Garbage == [kind |-> "garbage", key |-> "none", msg |-> <<>>]

hex_decode_ok(signature_hex) == signature_hex.kind # "not_hex"

\* casper_types::crypto::verify
crypto_verify(message, signature, public_key) ==
    /\ signature.kind = "signed"
    /\ signature.key = public_key
    /\ signature.msg = message

verify_signature(message, signature_hex, public_key) ==
    IF ~hex_decode_ok(signature_hex) THEN invalid_signature_error
    ELSE IF signature_hex.kind # "signed" THEN invalid_signature_error
    ELSE IF ~crypto_verify(message, signature_hex, public_key) THEN invalid_signature_error
    ELSE "Ok"

\* validate_deadline that also rejects a deadline equal to the block time
validate_deadline_strict(now, deadline) ==
    LET current_timestamp == now
    IN IF current_timestamp >= deadline THEN expired_error ELSE "Ok"

validate_deadline(now, deadline) ==
    LET current_timestamp == now
    IN IF current_timestamp > deadline THEN expired_error ELSE "Ok"

\* validate_nonce that rejects only nonces of the past, so permits may be skipped
validate_nonce_allows_gaps(st, account, provided_nonce) ==
    LET current_nonce == get_nonce(st, account)
    IN IF provided_nonce < current_nonce THEN invalid_nonce_error ELSE "Ok"

\* validate_nonce that rejects only nonces from the future
validate_nonce_accepts_stale(st, account, provided_nonce) ==
    LET current_nonce == get_nonce(st, account)
    IN IF provided_nonce > current_nonce THEN invalid_nonce_error ELSE "Ok"

validate_nonce(st, account, provided_nonce) ==
    LET current_nonce == get_nonce(st, account)
    IN IF provided_nonce # current_nonce THEN invalid_nonce_error ELSE "Ok"

increment_account_nonce(st, account) == increment_nonce(st, account)

\* process_nonce_for_payment that increments without validating
process_nonce_for_payment_unchecked(st, account, provided_nonce) ==
    increment_account_nonce(st, account)

process_nonce_for_payment(st, account, provided_nonce) ==
    IF validate_nonce(st, account, provided_nonce) # "Ok"
    THEN Err(validate_nonce(st, account, provided_nonce), st)
    ELSE increment_account_nonce(st, account)

\* the message do_claim_payment rebuilds: the chain name is a literal
do_claim_payment_message(recipient, amount, nonce, deadline) ==
    LET contract_hash == get_contract_hash
        chain_name == "casper"
    IN construct_message(chain_name, contract_hash, recipient, amount, nonce, deadline)

\* do_claim_payment that looks at the nonce before the deadline
do_claim_payment_nonce_first(st, now, user_pubkey, recipient, amount, nonce, deadline, signature) ==
    LET user_account == account_hash(user_pubkey)
        p == process_nonce_for_payment(st, user_account, nonce)
        message == do_claim_payment_message(recipient, amount, nonce, deadline)
        v == verify_signature(message, signature, user_pubkey)
        t == internal_transfer(p.st, user_account, recipient, amount)
    IN IF p.res # "Ok" THEN p
       ELSE IF validate_deadline(now, deadline) # "Ok"
       THEN Err(validate_deadline(now, deadline), st)
       ELSE IF v # "Ok" THEN Err(v, p.st)
       ELSE IF t.res # "Ok" THEN t
       ELSE Ok(emit_payment_claimed_event(t.st, user_account, recipient, amount, nonce))

do_claim_payment(st, now, user_pubkey, recipient, amount, nonce, deadline, signature) ==
    IF validate_deadline(now, deadline) # "Ok" THEN Err(validate_deadline(now, deadline), st)
    ELSE LET user_account == account_hash(user_pubkey)
             p == process_nonce_for_payment(st, user_account, nonce)
         IN IF p.res # "Ok" THEN p
            ELSE LET message == do_claim_payment_message(recipient, amount, nonce, deadline)
                     v == verify_signature(message, signature, user_pubkey)
                 IN IF v # "Ok" THEN Err(v, p.st)
                    ELSE LET t == internal_transfer(p.st, user_account, recipient, amount)
                         IN IF t.res # "Ok" THEN t
                            ELSE Ok(emit_payment_claimed_event(t.st, user_account,
                                                               recipient, amount, nonce))

\* ---------------------------------------------------- contract/src/lib.rs
\* runtime::revert inside a helper ends the call; it is returned as Err here.
contract_internal_transfer(st, from, to, amount) ==
    IF from = to THEN Ok(st)
    ELSE LET from_balance == get_balance(st, from)
         IN IF from_balance < amount THEN Err(insufficient_balance_error, st)
            ELSE LET to_balance == get_balance(st, to)
                     new_to_balance == U256_add(to_balance, amount)
                     st1 == set_balance(st, from, from_balance - amount)
                     st2 == set_balance(st1, to, new_to_balance.value)
                 IN IF new_to_balance.panics THEN Err(Trap, st1)
                    ELSE Ok(emit_transfer_event(st2, from, to, amount))

contract_transfer(st, caller, recipient, amount) ==
    contract_internal_transfer(st, caller, recipient, amount)

contract_approve(st, caller, spender, amount) ==
    Ok(emit_approval_event(set_allowance(st, caller, spender, amount), caller, spender, amount))

contract_transfer_from(st, caller, owner, recipient, amount) ==
    LET spender == caller
        current_allowance == get_allowance(st, owner, spender)
    IN IF current_allowance < amount THEN Err(insufficient_allowance_error, st)
       ELSE LET st1 == set_allowance(st, owner, spender, current_allowance - amount)
            IN contract_internal_transfer(st1, owner, recipient, amount)

\* the payload the contract rebuilds: its chain name is the block time
contract_full_message(now, recipient, amount, nonce, deadline) ==
    LET chain_name == ToString(now)
        contract_hash == get_contract_hash
    IN <<CASPER_MESSAGE_PREFIX, chain_name, contract_hash, recipient, amount, nonce, deadline>>

contract_claim_payment(st, now, user_pubkey, recipient, amount, nonce, deadline, signature) ==
    LET user_account == account_hash(user_pubkey)
        current_timestamp == now
    IN IF current_timestamp > deadline THEN Err(expired_error, st)
       ELSE LET current_nonce == get_nonce(st, user_account)
            IN IF nonce # current_nonce THEN Err(invalid_nonce_error, st)
               ELSE LET new_nonce == u64_add(current_nonce, 1)
                        st1 == set_nonce(st, user_account, new_nonce.value)
                        full_message == contract_full_message(now, recipient, amount,
                                                              nonce, deadline)
                    IN IF new_nonce.panics THEN Err(Trap, st)
                       ELSE
                       \* hex::decode(&signature).unwrap_or_revert_with(InvalidSignature);
                       \* the verification of signature_bytes against full_message is
                       \* commented out in the source
                       IF ~hex_decode_ok(signature) THEN Err(invalid_signature_error, st1)
                       ELSE LET t == contract_internal_transfer(st1, user_account,
                                                                recipient, amount)
                            IN IF t.res # "Ok" THEN t
                               ELSE Ok(emit_payment_claimed_event(t.st, user_account,
                                                                  recipient, amount, nonce))

\* ------------------------------------------- final-facilitator/src/lib.rs
\* The vault facilitator contract.  fs is the working copy of its named keys
\* during one call; fs.emitted lists the events the call has emitted.
\* Installation is taken to have succeeded: the entry points find the named
\* keys initialize_contract wrote.
PermissionDenied == "PermissionDenied"
InvalidArgument == "InvalidArgument"

FacilitatorAdmin == "A"
FeeRecipient == "B"
FacilitatorCallers == {"A", "B"}        \* the admin and another account
Tokens == {"T1", "T2"}
SignerWeights == {1, 2}
TransactionData == {<<>>, <<0>>}        \* Vec<u8>: empty, and one byte
FeeTokens == {<<>>} \cup {<<t>> : t \in Tokens}     \* Option<ContractHash>

\* emit_facilitator_event: put_key("VaultFacilitator_<name>", new_uref(data))
emit_facilitator_event(fs, event_name, data) ==
    [fs EXCEPT !.named_keys = @ \cup {event_name},
               !.emitted = Append(@, [name |-> event_name, data |-> data])]

\* named keys written by initialize_contract, and the event it emits
initialize_contract(admin, fee_recipient, base_fee_rate, max_fee_rate) ==
    emit_facilitator_event(
        [admin |-> admin, fee_recipient |-> fee_recipient,
         base_fee_rate |-> base_fee_rate, max_fee_rate |-> max_fee_rate,
         is_paused |-> FALSE, supported_tokens |-> <<>>, signer_pool |-> <<>>,
         named_keys |-> {}, emitted |-> <<>>],
        "Initialized", <<admin, fee_recipient, base_fee_rate>>)

get_admin(fs) == fs.admin
get_supported_tokens(fs) == fs.supported_tokens
set_supported_tokens(fs, tokens) == [fs EXCEPT !.supported_tokens = tokens]
get_signer_pool(fs) == fs.signer_pool
set_signer_pool(fs, signers) == [fs EXCEPT !.signer_pool = signers]
get_base_fee_rate(fs) == fs.base_fee_rate
is_paused(fs) == fs.is_paused
set_paused(fs, paused) == [fs EXCEPT !.is_paused = paused]

\* Vec::contains, Vec::remove, Vec::push; Iterator::position is the index of
\* the first element the closure accepts (`matching` is the set of elements
\* it accepts), 0 when there is none
contains(vec, x) == \E i \in 1..Len(vec) : vec[i] = x
position(vec, matching) ==
    IF \E i \in 1..Len(vec) : vec[i] \in matching
    THEN CHOOSE i \in 1..Len(vec) :
             vec[i] \in matching /\ \A j \in 1..(i - 1) : vec[j] \notin matching
    ELSE 0
remove(vec, pos) == [i \in 1..(Len(vec) - 1) |-> IF i < pos THEN vec[i] ELSE vec[i + 1]]
\* a push that drops what the vector held
push_replaces(vec, x) == <<x>>

push(vec, x) == Append(vec, x)

\* require_admin that lets every caller through
require_admin_open(fs, caller) == "Ok"

\* require_admin reverts with PermissionDenied; "Ok" when it returns
require_admin(fs, caller) ==
    LET admin == get_admin(fs)
    IN IF caller # admin THEN PermissionDenied ELSE "Ok"

\* do_add_supported_token that pushes without looking for the token
do_add_supported_token_unchecked(fs, caller, token_contract) ==
    IF require_admin(fs, caller) # "Ok" THEN Err(require_admin(fs, caller), fs)
    ELSE LET supported_tokens == get_supported_tokens(fs)
             fs1 == set_supported_tokens(fs, push(supported_tokens, token_contract))
         IN Ok(emit_facilitator_event(fs1, "TokenAdded", <<token_contract>>))

do_add_supported_token(fs, caller, token_contract) ==
    IF require_admin(fs, caller) # "Ok" THEN Err(require_admin(fs, caller), fs)
    ELSE LET supported_tokens == get_supported_tokens(fs)
         IN IF contains(supported_tokens, token_contract) THEN Err(InvalidArgument, fs)
            ELSE LET fs1 == set_supported_tokens(fs, push(supported_tokens, token_contract))
                 IN Ok(emit_facilitator_event(fs1, "TokenAdded", <<token_contract>>))

do_remove_supported_token(fs, caller, token_contract) ==
    IF require_admin(fs, caller) # "Ok" THEN Err(require_admin(fs, caller), fs)
    ELSE LET supported_tokens == get_supported_tokens(fs)
             pos == position(supported_tokens, {token_contract})
         IN IF pos # 0
            THEN LET fs1 == set_supported_tokens(fs, remove(supported_tokens, pos))
                 IN Ok(emit_facilitator_event(fs1, "TokenRemoved", <<token_contract>>))
            ELSE Err(InvalidArgument, fs)

\* do_add_signer that pushes without looking for the account
do_add_signer_unchecked(fs, caller, public_key, weight) ==
    IF require_admin(fs, caller) # "Ok" THEN Err(require_admin(fs, caller), fs)
    ELSE LET signer_account == account_hash(public_key)
             signer_info == [account_hash |-> signer_account, public_key |-> public_key,
                             weight |-> weight, is_active |-> TRUE]
             fs1 == set_signer_pool(fs, push(get_signer_pool(fs), signer_info))
         IN Ok(emit_facilitator_event(fs1, "SignerAdded", <<signer_account, weight>>))

do_add_signer(fs, caller, public_key, weight) ==
    IF require_admin(fs, caller) # "Ok" THEN Err(require_admin(fs, caller), fs)
    ELSE LET signer_account == account_hash(public_key)
             signer_info == [account_hash |-> signer_account, public_key |-> public_key,
                             weight |-> weight, is_active |-> TRUE]
             signer_pool == get_signer_pool(fs)
         IN IF \E i \in 1..Len(signer_pool) : signer_pool[i].account_hash = signer_account
            THEN Err(InvalidArgument, fs)
            ELSE LET fs1 == set_signer_pool(fs, push(signer_pool, signer_info))
                 IN Ok(emit_facilitator_event(fs1, "SignerAdded", <<signer_account, weight>>))

\* do_remove_signer that also writes the removed account under the admin key
do_remove_signer_writes_admin(fs, caller, signer_account) ==
    IF require_admin(fs, caller) # "Ok" THEN Err(require_admin(fs, caller), fs)
    ELSE LET signer_pool == get_signer_pool(fs)
             pos == position(signer_pool,
                             {signer_pool[i] : i \in {j \in 1..Len(signer_pool) :
                                 signer_pool[j].account_hash = signer_account}})
         IN IF pos # 0
            THEN LET fs1 == [set_signer_pool(fs, remove(signer_pool, pos))
                                EXCEPT !.admin = signer_account]
                 IN Ok(emit_facilitator_event(fs1, "SignerRemoved", <<signer_account>>))
            ELSE Err(InvalidArgument, fs)

do_remove_signer(fs, caller, signer_account) ==
    IF require_admin(fs, caller) # "Ok" THEN Err(require_admin(fs, caller), fs)
    ELSE LET signer_pool == get_signer_pool(fs)
             pos == position(signer_pool,
                             {signer_pool[i] : i \in {j \in 1..Len(signer_pool) :
                                 signer_pool[j].account_hash = signer_account}})
         IN IF pos # 0
            THEN LET fs1 == set_signer_pool(fs, remove(signer_pool, pos))
                 IN Ok(emit_facilitator_event(fs1, "SignerRemoved", <<signer_account>>))
            ELSE Err(InvalidArgument, fs)

\* do_pause_contract that emits the event and leaves the flag alone
do_pause_contract_keeps_flag(fs, caller) ==
    IF require_admin(fs, caller) # "Ok" THEN Err(require_admin(fs, caller), fs)
    ELSE Ok(emit_facilitator_event(fs, "ContractPaused", <<>>))

do_pause_contract(fs, caller) ==
    IF require_admin(fs, caller) # "Ok" THEN Err(require_admin(fs, caller), fs)
    ELSE Ok(emit_facilitator_event(set_paused(fs, TRUE), "ContractPaused", <<>>))

do_unpause_contract(fs, caller) ==
    IF require_admin(fs, caller) # "Ok" THEN Err(require_admin(fs, caller), fs)
    ELSE Ok(emit_facilitator_event(set_paused(fs, FALSE), "ContractUnpaused", <<>>))

\* require_not_paused that never reverts
require_not_paused_open(fs) == "Ok"

\* require_not_paused reverts with PermissionDenied; "Ok" when it returns
require_not_paused(fs) == IF is_paused(fs) THEN PermissionDenied ELSE "Ok"

\* fee::calculate_total_fees: every step of it saturates, so it returns for
\* every input; the amounts are not modelled, the fee is named by the inputs
\* that determine it.
calculate_total_fees(size, instruction_count, uses_lookup_tables, is_payment_required, rate) ==
    [total_fee |-> <<size, instruction_count, uses_lookup_tables, is_payment_required, rate>>]

\* the result carries the fee calculation when the call returns
estimate_transaction_fees(fs, size, instruction_count, uses_lookup_tables, payment_required) ==
    IF require_not_paused(fs) # "Ok"
    THEN [res |-> require_not_paused(fs), st |-> fs, fee_calc |-> <<>>]
    ELSE LET base_fee_rate == get_base_fee_rate(fs)
         IN [res |-> "Ok", st |-> fs,
             fee_calc |-> calculate_total_fees(size, instruction_count, uses_lookup_tables,
                                               payment_required, base_fee_rate)]

\* process_fee_payment that accepts every token
process_fee_payment_any_token(fs, token_contract, fee_amount) == "Ok"

process_fee_payment(fs, token_contract, fee_amount) ==
    LET supported_tokens == get_supported_tokens(fs)
    IN IF ~contains(supported_tokens, token_contract) THEN InvalidArgument ELSE "Ok"

\* do_process_transaction that pauses the contract once it has processed
do_process_transaction_pauses(fs, user_signature, transaction_data, fee_token) ==
    IF require_not_paused(fs) # "Ok" THEN Err(require_not_paused(fs), fs)
    ELSE IF transaction_data = <<>> THEN Err(InvalidArgument, fs)
    ELSE LET e == estimate_transaction_fees(fs, Len(transaction_data), 1, FALSE,
                                            fee_token # <<>>)
         IN IF e.res # "Ok" THEN Err(e.res, fs)
            ELSE IF fee_token # <<>>
                    /\ process_fee_payment(fs, fee_token[1], e.fee_calc.total_fee) # "Ok"
                 THEN Err(process_fee_payment(fs, fee_token[1], e.fee_calc.total_fee), fs)
            ELSE Ok(emit_facilitator_event(set_paused(fs, TRUE), "TransactionProcessed",
                                           <<e.fee_calc.total_fee, Len(transaction_data)>>))

do_process_transaction(fs, user_signature, transaction_data, fee_token) ==
    IF require_not_paused(fs) # "Ok" THEN Err(require_not_paused(fs), fs)
    ELSE IF transaction_data = <<>> THEN Err(InvalidArgument, fs)
    ELSE LET e == estimate_transaction_fees(fs, Len(transaction_data), 1, FALSE,
                                            fee_token # <<>>)
         IN IF e.res # "Ok" THEN Err(e.res, fs)
            ELSE IF fee_token # <<>>
                    /\ process_fee_payment(fs, fee_token[1], e.fee_calc.total_fee) # "Ok"
                 THEN Err(process_fee_payment(fs, fee_token[1], e.fee_calc.total_fee), fs)
            ELSE Ok(emit_facilitator_event(fs, "TransactionProcessed",
                                           <<e.fee_calc.total_fee, Len(transaction_data)>>))

\* the named keys as installation leaves them
FacilitatorKeys ==
    {"admin", "fee_recipient", "base_fee_rate", "max_fee_rate", "is_paused",
     "supported_tokens", "signer_pool", "named_keys"}
stored(fs) == [k \in FacilitatorKeys |-> fs[k]]
InstalledFacilitator == initialize_contract(FacilitatorAdmin, FeeRecipient, 1, 2)

\* ------------------------- final-facilitator/test-runner: ContractState
\* The dependency-free model of the facilitator.  A method that returns Err
\* has changed nothing; the result is "Ok" or the error string.
AccessControl_new(admin) == [admin |-> admin, operators |-> <<>>]

is_admin(access_control, account) == account = access_control.admin

AccessControl_require_admin(access_control, caller) ==
    IF is_admin(access_control, caller) THEN "Ok" ELSE "Admin access required"

ContractState_new(admin, fee_recipient, base_fee_rate, max_fee_rate) ==
    [access_control |-> AccessControl_new(admin), fee_recipient |-> fee_recipient,
     base_fee_rate |-> base_fee_rate, max_fee_rate |-> max_fee_rate, is_paused |-> FALSE,
     supported_tokens |-> <<>>, signer_pool |-> <<>>, user_balances |-> <<>>]

ContractState_pause(self, caller) ==
    IF AccessControl_require_admin(self.access_control, caller) # "Ok"
    THEN Err(AccessControl_require_admin(self.access_control, caller), self)
    ELSE IF self.is_paused THEN Err("Already paused", self)
    ELSE Ok([self EXCEPT !.is_paused = TRUE])

ContractState_unpause(self, caller) ==
    IF AccessControl_require_admin(self.access_control, caller) # "Ok"
    THEN Err(AccessControl_require_admin(self.access_control, caller), self)
    ELSE IF ~self.is_paused THEN Err("Already unpaused", self)
    ELSE Ok([self EXCEPT !.is_paused = FALSE])

\* ------------------------------------------------------------ entry points
Storage ==
    [balances |-> balances, allowances |-> allowances, nonces |-> nonces,
     named_keys |-> named_keys, emitted |-> <<>>]

\* an entry point that returns without reverting on an error
unwrap_or_revert_no_rollback(out, before) == out.st

\* unwrap_or_revert / runtime::revert at the entry point: a call that returns
\* an error reverts, and the host discards every write the call made.
unwrap_or_revert(out, before) == IF out.res = "Ok" THEN out.st ELSE before

transfer(st, caller, to, amount) ==
    IF impl = "permit" THEN do_transfer(st, caller, to, amount)
    ELSE contract_transfer(st, caller, to, amount)

approve(st, caller, spender, amount) ==
    IF impl = "permit" THEN do_approve(st, caller, spender, amount)
    ELSE contract_approve(st, caller, spender, amount)

transfer_from(st, caller, owner, to, amount) ==
    IF impl = "permit" THEN do_transfer_from(st, caller, owner, to, amount)
    ELSE contract_transfer_from(st, caller, owner, to, amount)

claim_payment(st, now, user_pubkey, recipient, amount, nonce, deadline, signature) ==
    IF impl = "permit"
    THEN do_claim_payment(st, now, user_pubkey, recipient, amount, nonce, deadline, signature)
    ELSE contract_claim_payment(st, now, user_pubkey, recipient, amount, nonce, deadline,
                                signature)

\* ------------------------------------------------------------------ inputs
\* The message a holder signs off-line for a permit addressed to `contract`:
\* the canonical format, with the network id the token uses.
PermitMessage(contract, recipient, amount, nonce, deadline) ==
    <<"Casper Message:\nx402-casper", "casper", contract, recipient, amount, nonce, deadline>>

OtherKey(pk) == CHOOSE k \in AllKeys : k # pk
OtherAccount(a) == IF a = "A" THEN "B" ELSE IF a = "B" THEN ZeroAccount ELSE "A"
OtherAmount(a) == (a % MaxSupply) + 1
OtherNonce(n) == (n + 1) % MaxNonce
OtherTime(d) == (d + 1) % (MaxTime + 1)

\* The permit signed by pk for exactly the arguments of the call.
ExactPermit(pk, recipient, amount, nonce, deadline) ==
    Sign(pk, PermitMessage(get_contract_hash, recipient, amount, nonce, deadline))

\* Signature strings submitted with a call: the exact permit, permits that
\* differ from the call in one respect (key, contract, one field), and two
\* strings that are no signature at all.
SignatureInputs(pk, recipient, amount, nonce, deadline) ==
    { ExactPermit(pk, recipient, amount, nonce, deadline),
      Sign(OtherKey(pk), PermitMessage(get_contract_hash, recipient, amount, nonce, deadline)),
      Sign(pk, PermitMessage(OtherContract, recipient, amount, nonce, deadline)),
      Sign(pk, PermitMessage(get_contract_hash, OtherAccount(recipient), amount, nonce, deadline)),
      Sign(pk, PermitMessage(get_contract_hash, recipient, OtherAmount(amount), nonce, deadline)),
      Sign(pk, PermitMessage(get_contract_hash, recipient, amount, OtherNonce(nonce), deadline)),
      Sign(pk, PermitMessage(get_contract_hash, recipient, amount, nonce, OtherTime(deadline))),
      NotHex, Garbage }

\* every claim_payment call the model submits
ClaimCalls ==
    UNION { { [user_pubkey |-> a[1], recipient |-> a[2], amount |-> a[3], nonce |-> a[4],
               deadline |-> a[5], signature |-> s] :
              s \in SignatureInputs(a[1], a[2], a[3], a[4], a[5]) } :
            a \in PublicKeys \X Accounts \X Amounts \X PermitNonces \X Times }

\* ----------------------------------------------------------------- actions
Outcome(op, out) ==
    LET after == unwrap_or_revert(out, Storage)
    IN /\ balances' = after.balances
       /\ allowances' = after.allowances
       /\ nonces' = after.nonces
       /\ named_keys' = after.named_keys
       /\ last' = [op |-> op, result |-> out.res, events |-> after.emitted]

\* installation: call() / init mint the whole supply to the deployer
Init ==
    /\ impl \in Impls
    /\ total_supply = MaxSupply
    /\ overflow_checks = FALSE
    /\ blocktime = 0
    /\ balances = [a \in Accounts |-> IF a = Deployer THEN MaxSupply ELSE 0]
    /\ allowances = [p \in Accounts \X Accounts |-> 0]
    /\ nonces = [a \in Accounts |-> 0]
    /\ named_keys = {TRANSFER_EVENT}
    /\ last = [op |-> "call", result |-> "Ok",
               events |-> <<[name |-> TRANSFER_EVENT,
                             data |-> <<ZeroAccount, Deployer, MaxSupply>>]>>]
    /\ accepted = {}
    /\ facilitator = stored(InstalledFacilitator)
    /\ contract_state = ContractState_new(FacilitatorAdmin, FeeRecipient, 1, 2)

Transfer ==
    \E caller \in Accounts, to \in Accounts, amount \in Amounts :
        /\ Outcome("transfer", transfer(Storage, caller, to, amount))
        /\ UNCHANGED <<facilitator, contract_state, impl, total_supply, overflow_checks, blocktime, accepted>>

Approve ==
    \E caller \in ApproveOwners, spender \in ApproveSpenders, amount \in Amounts :
        /\ Outcome("approve", approve(Storage, caller, spender, amount))
        /\ UNCHANGED <<facilitator, contract_state, impl, total_supply, overflow_checks, blocktime, accepted>>

TransferFrom ==
    \E caller \in ApproveSpenders, owner \in Accounts, to \in Accounts, amount \in Amounts :
        /\ Outcome("transfer_from", transfer_from(Storage, caller, owner, to, amount))
        /\ UNCHANGED <<facilitator, contract_state, impl, total_supply, overflow_checks, blocktime, accepted>>

\* the result and working storage of the call c made in the current state
Claim(c) ==
    claim_payment(Storage, blocktime, c.user_pubkey, c.recipient, c.amount, c.nonce,
                  c.deadline, c.signature)

ClaimPaymentCall(c) ==
    /\ Outcome("claim_payment", Claim(c))
    /\ accepted' = IF Claim(c).res = "Ok"
                   THEN accepted \cup {[signer |-> account_hash(c.user_pubkey),
                                        nonce |-> c.nonce, deadline |-> c.deadline]}
                   ELSE accepted
    /\ UNCHANGED <<facilitator, contract_state, impl, total_supply, overflow_checks, blocktime>>

ClaimPayment == \E c \in ClaimCalls : ClaimPaymentCall(c)

\* the block time advances between calls
AdvanceTime ==
    /\ blocktime < MaxTime
    /\ blocktime' = blocktime + 1
    /\ last' = [op |-> "blocktime", result |-> "Ok", events |-> <<>>]
    /\ UNCHANGED <<facilitator, contract_state, impl, total_supply, overflow_checks, balances, allowances, nonces, named_keys, accepted>>

Next == Transfer \/ Approve \/ TransferFrom \/ ClaimPayment \/ AdvanceTime

Spec == Init /\ [][Next]_vars

\* ------------------------------------------------- dictionaries as stored
\* Spec starts with every key present and holding the value a read of it
\* returns.  DictSpec starts from the dictionaries as installation leaves
\* them, with the deployer's balance the only entry, and runs the same entry
\* points, claim_payment with the permits of the latest deadline whose
\* signature is the exact permit or no hex string.
DictInit ==
    /\ impl \in Impls
    /\ total_supply = MaxSupply
    /\ overflow_checks = FALSE
    /\ blocktime = 0
    /\ balances = [a \in {Deployer} |-> MaxSupply]
    /\ allowances = [p \in {} |-> 0]
    /\ nonces = [a \in {} |-> 0]
    /\ named_keys = {TRANSFER_EVENT}
    /\ last = [op |-> "call", result |-> "Ok",
               events |-> <<[name |-> TRANSFER_EVENT,
                             data |-> <<ZeroAccount, Deployer, MaxSupply>>]>>]
    /\ accepted = {}
    /\ facilitator = stored(InstalledFacilitator)
    /\ contract_state = ContractState_new(FacilitatorAdmin, FeeRecipient, 1, 2)

DictClaimCalls ==
    {c \in ClaimCalls :
        /\ c.deadline = MaxTime
        /\ \/ c.signature = ExactPermit(c.user_pubkey, c.recipient, c.amount, c.nonce,
                                         c.deadline)
           \/ c.signature = NotHex}

DictClaimPayment == \E c \in DictClaimCalls : ClaimPaymentCall(c)

DictNext == Transfer \/ Approve \/ TransferFrom \/ DictClaimPayment

DictSpec == DictInit /\ [][DictNext]_vars

\* -------------------------------------------------- the plain ledger
\* LedgerSpec runs transfer, approve and transfer_from of either
\* implementation from the installation state.
LedgerNext == Transfer \/ Approve \/ TransferFrom

LedgerSpec == DictInit /\ [][LedgerNext]_vars

\* ------------------------------------------------------ permits and time
\* ExpirySpec runs claim_payment while block time passes: permits with every
\* deadline, signed exactly or carrying a string that is no signature.
ExpiryClaimCalls ==
    {c \in ClaimCalls :
        \/ c.signature = ExactPermit(c.user_pubkey, c.recipient, c.amount, c.nonce,
                                      c.deadline)
        \/ c.signature = NotHex}

ExpiryClaimPayment == \E c \in ExpiryClaimCalls : ClaimPaymentCall(c)

ExpiryNext == ExpiryClaimPayment \/ AdvanceTime

ExpirySpec == Init /\ [][ExpiryNext]_vars

\* ------------------------------------------------- who submits a permit
\* SubmitSpec runs claim_payment as the host runs it: for a caller, the
\* account that sent the deploy.  Neither implementation reads
\* runtime::get_caller() in claim_payment.  The callers are the holder A
\* itself and B, a facilitator; transfers by any account run in between.
Submitters == {"A", "B"}

\* a claim_payment that only the holder may submit
claim_payment_entry_point_holder_only(st, caller, now, c) ==
    IF caller # account_hash(c.user_pubkey) THEN Err(invalid_signature_error, st)
    ELSE claim_payment(st, now, c.user_pubkey, c.recipient, c.amount, c.nonce, c.deadline,
                       c.signature)

\* the entry point claim_payment called by `caller` with the arguments c
claim_payment_entry_point(st, caller, now, c) ==
    claim_payment(st, now, c.user_pubkey, c.recipient, c.amount, c.nonce, c.deadline,
                  c.signature)

SubmitInit == DictInit

SubmittedClaimPayment ==
    \E caller \in Submitters, c \in DictClaimCalls :
        /\ Outcome("claim_payment", claim_payment_entry_point(Storage, caller, blocktime, c))
        /\ accepted' = IF claim_payment_entry_point(Storage, caller, blocktime, c).res = "Ok"
                       THEN accepted \cup {[signer |-> account_hash(c.user_pubkey),
                                            nonce |-> c.nonce, deadline |-> c.deadline]}
                       ELSE accepted
        /\ UNCHANGED <<facilitator, contract_state, impl, total_supply, overflow_checks, blocktime>>

SubmitNext == Transfer \/ SubmittedClaimPayment

SubmitSpec == SubmitInit /\ [][SubmitNext]_vars

\* ------------------------------------------- arithmetic at the type limits
\* One call on dictionaries whose entries are at or next to the limits of
\* their types, under either build.  Reaching u64::MAX from installation
\* takes u64::MAX accepted permits, which Spec does not run; each entry
\* drawn here is a value its dictionary can hold.
LimitBalances == {0, U256_MAX - 1, U256_MAX}
LimitNonces == {0, u64_MAX - 1, u64_MAX}
LimitAmounts == {1, U256_MAX}

OverflowInit ==
    /\ impl \in Impls
    /\ total_supply = MaxSupply
    /\ overflow_checks \in BOOLEAN
    /\ blocktime = 0
    /\ balances \in [Accounts -> LimitBalances]
    /\ allowances = [p \in Accounts \X Accounts |-> 0]
    /\ nonces \in {[a \in Accounts |-> IF a = "A" THEN n ELSE 0] : n \in LimitNonces}
    /\ named_keys = {TRANSFER_EVENT}
    /\ last = [op |-> "none", result |-> "Ok", events |-> <<>>]
    /\ accepted = {}
    /\ facilitator = stored(InstalledFacilitator)
    /\ contract_state = ContractState_new(FacilitatorAdmin, FeeRecipient, 1, 2)

\* the permit of A for `amount` to `recipient` that carries A's current nonce
CurrentPermit(recipient, amount) ==
    [user_pubkey |-> "KA", recipient |-> recipient, amount |-> amount,
     nonce |-> nonces["A"], deadline |-> MaxTime,
     signature |-> ExactPermit("KA", recipient, amount, nonces["A"], MaxTime)]

LimitTransfer ==
    /\ last.op = "none"
    /\ \E caller \in Accounts, to \in Accounts, amount \in LimitAmounts :
          Outcome("transfer", transfer(Storage, caller, to, amount))
    /\ UNCHANGED <<facilitator, contract_state, impl, total_supply, overflow_checks, blocktime, accepted>>

LimitClaimPayment ==
    /\ last.op = "none"
    /\ \E recipient \in Accounts, amount \in LimitAmounts :
          ClaimPaymentCall(CurrentPermit(recipient, amount))

OverflowNext == LimitTransfer \/ LimitClaimPayment

OverflowSpec == OverflowInit /\ [][OverflowNext]_vars

\* ------------------------------------------------- the vault facilitator
\* FacSpec runs the entry points of the facilitator contract from its
\* installation; the token's variables stay as the token's installation
\* leaves them.
FacilitatorStorage ==
    [k \in FacilitatorKeys \cup {"emitted"} |->
        IF k = "emitted" THEN <<>> ELSE facilitator[k]]

FacOutcome(op, out) ==
    LET after == unwrap_or_revert(out, FacilitatorStorage)
    IN /\ facilitator' = stored(after)
       /\ last' = [op |-> op, result |-> out.res, events |-> after.emitted]

FacInit ==
    /\ impl = "permit"
    /\ total_supply = MaxSupply
    /\ overflow_checks = FALSE
    /\ blocktime = 0
    /\ balances = [a \in Accounts |-> IF a = Deployer THEN MaxSupply ELSE 0]
    /\ allowances = [p \in Accounts \X Accounts |-> 0]
    /\ nonces = [a \in Accounts |-> 0]
    /\ named_keys = {TRANSFER_EVENT}
    /\ accepted = {}
    /\ facilitator = stored(InstalledFacilitator)
    /\ contract_state = ContractState_new(FacilitatorAdmin, FeeRecipient, 1, 2)
    /\ last = [op |-> "call", result |-> "Ok", events |-> InstalledFacilitator.emitted]

AddSupportedToken ==
    \E caller \in FacilitatorCallers, token_contract \in Tokens :
        /\ FacOutcome("add_supported_token",
                      do_add_supported_token(FacilitatorStorage, caller, token_contract))
        /\ UNCHANGED <<tokenVars, contract_state>>

RemoveSupportedToken ==
    \E caller \in FacilitatorCallers, token_contract \in Tokens :
        /\ FacOutcome("remove_supported_token",
                      do_remove_supported_token(FacilitatorStorage, caller, token_contract))
        /\ UNCHANGED <<tokenVars, contract_state>>

AddSigner ==
    \E caller \in FacilitatorCallers, public_key \in AllKeys, weight \in SignerWeights :
        /\ FacOutcome("add_signer", do_add_signer(FacilitatorStorage, caller, public_key, weight))
        /\ UNCHANGED <<tokenVars, contract_state>>

RemoveSigner ==
    \E caller \in FacilitatorCallers, signer_account \in FacilitatorCallers :
        /\ FacOutcome("remove_signer", do_remove_signer(FacilitatorStorage, caller, signer_account))
        /\ UNCHANGED <<tokenVars, contract_state>>

PauseContract ==
    \E caller \in FacilitatorCallers :
        /\ FacOutcome("pause_contract", do_pause_contract(FacilitatorStorage, caller))
        /\ UNCHANGED <<tokenVars, contract_state>>

UnpauseContract ==
    \E caller \in FacilitatorCallers :
        /\ FacOutcome("unpause_contract", do_unpause_contract(FacilitatorStorage, caller))
        /\ UNCHANGED <<tokenVars, contract_state>>

EstimateFees ==
    \E uses_lookup_tables \in BOOLEAN, is_payment_required \in BOOLEAN :
        /\ FacOutcome("estimate_fees",
                      estimate_transaction_fees(FacilitatorStorage, 1, 1, uses_lookup_tables,
                                                is_payment_required))
        /\ UNCHANGED <<tokenVars, contract_state>>

ProcessTransaction ==
    \E transaction_data \in TransactionData, fee_token \in FeeTokens :
        /\ FacOutcome("process_transaction",
                      do_process_transaction(FacilitatorStorage, "signature", transaction_data,
                                             fee_token))
        /\ UNCHANGED <<tokenVars, contract_state>>

FacNext ==
    \/ AddSupportedToken
    \/ RemoveSupportedToken
    \/ AddSigner
    \/ RemoveSigner
    \/ PauseContract
    \/ UnpauseContract
    \/ EstimateFees
    \/ ProcessTransaction

FacSpec == FacInit /\ [][FacNext]_vars

\* ------------------------------------------ facilitator and ContractState
\* PauseSpec runs the facilitator with ContractState beside it: every
\* pause_contract and unpause_contract call is also made on ContractState, by
\* the same caller.  The other entry points run on the facilitator alone.
PauseSideBySide ==
    \E caller \in FacilitatorCallers :
        /\ FacOutcome("pause_contract", do_pause_contract(FacilitatorStorage, caller))
        /\ contract_state' = ContractState_pause(contract_state, caller).st
        /\ UNCHANGED tokenVars

UnpauseSideBySide ==
    \E caller \in FacilitatorCallers :
        /\ FacOutcome("unpause_contract", do_unpause_contract(FacilitatorStorage, caller))
        /\ contract_state' = ContractState_unpause(contract_state, caller).st
        /\ UNCHANGED tokenVars

PauseNext ==
    \/ AddSupportedToken
    \/ RemoveSupportedToken
    \/ AddSigner
    \/ RemoveSigner
    \/ PauseSideBySide
    \/ UnpauseSideBySide
    \/ EstimateFees
    \/ ProcessTransaction

PauseSpec == FacInit /\ [][PauseNext]_vars

\* ------------------------------------------------------------ definitions
\* used by the properties below
RECURSIVE SumOver(_, _)
SumOver(f, S) == IF S = {} THEN 0
                 ELSE LET x == CHOOSE y \in S : TRUE IN f[x] + SumOver(f, S \ {x})
SumBalances(b) == SumOver(b, Accounts)

Signer(c) == account_hash(c.user_pubkey)

\* the storage after the call c, as the next call sees it
AfterClaim(c) == unwrap_or_revert(Claim(c), Storage)

\* The supplied signature is a signature by the signer's key over the
\* canonical message of this contract and the call's own arguments.
SignatureVerifies(c) ==
    /\ c.signature.kind = "signed"
    /\ c.signature.key = c.user_pubkey
    /\ c.signature.msg = PermitMessage(get_contract_hash, c.recipient, c.amount, c.nonce,
                                       c.deadline)

ClaimStep == last'.op = "claim_payment" /\ vars' # vars
ClaimAccepted == ClaimStep /\ last'.result = "Ok"
ClaimFailed == ClaimStep /\ last'.result # "Ok"

\* C1: a claim_payment that fails with any error leaves every nonce and
\* every balance as it was before the call, also when the signature check
\* fails after the nonce was validated and incremented.
C1_FailedClaimLeavesNoncesAndBalances ==
    [][ClaimFailed => (nonces' = nonces /\ balances' = balances)]_vars

\* a claim_payment has just failed on its signature, after process_nonce_for_payment
\* had incremented the nonce in the working storage, and nonce(A) is still 0
C1_Witness ==
    /\ last.op = "claim_payment"
    /\ last.result = invalid_signature_error
    /\ nonces["A"] = 0
    /\ balances["A"] = MaxSupply

\* C2: claim_payment moves value only when the signature verifies under the
\* signer's key over the message rebuilt from the call's arguments; a call
\* whose signature does not verify or decode fails, with InvalidSignature
\* once the deadline and nonce checks have passed, and changes no balance.
C2_UnverifiedSignatureMovesNothing ==
    \A c \in ClaimCalls :
        ~SignatureVerifies(c) =>
            /\ Claim(c).res # "Ok"
            /\ (blocktime <= c.deadline /\ c.nonce = nonces[Signer(c)])
                   => Claim(c).res = invalid_signature_error
            /\ AfterClaim(c).balances = balances

\* c repeats the signer, nonce and deadline of a permit accepted earlier
Resubmitted(c) ==
    [signer |-> Signer(c), nonce |-> c.nonce, deadline |-> c.deadline] \in accepted

\* the accepted claim of this step had the signer's current nonce and moved it up by 1
NonceAdvancedByOne ==
    \E e \in accepted' \ accepted :
        /\ e.nonce = nonces[e.signer]
        /\ nonces'[e.signer] = nonces[e.signer] + 1

\* C3 as stated: after every successful claim_payment nonce(signer) is its
\* old value plus 1, and a later resubmission of the same permit, after any
\* number of other operations, fails with InvalidNonce.
C3_ResubmissionFailsInvalidNonce ==
    /\ [](\A c \in ClaimCalls : Resubmitted(c) => Claim(c).res = invalid_nonce_error)
    /\ [][ClaimAccepted => NonceAdvancedByOne]_vars

\* C3 as amended: after every successful claim_payment nonce(signer) is its
\* old value plus 1, and a later resubmission of the same permit fails: with
\* Expired once the block time has passed the permit's deadline, and with
\* InvalidNonce until then.
C3_ResubmissionFails ==
    /\ [](\A c \in ClaimCalls :
            Resubmitted(c) =>
                Claim(c).res = IF blocktime > c.deadline THEN expired_error
                               ELSE invalid_nonce_error)
    /\ [][ClaimAccepted => NonceAdvancedByOne]_vars

\* the permit (A, nonce 0, deadline MaxTime) was accepted, nonce(A) is 1 and
\* a claim has since been rejected for its nonce
C3_Witness ==
    /\ last.op = "claim_payment"
    /\ last.result = invalid_nonce_error
    /\ accepted = {[signer |-> "A", nonce |-> 0, deadline |-> MaxTime]}
    /\ nonces["A"] = 1

\* C4: every step (transfer, transfer_from, claim_payment, successful or
\* failed, and any other call) leaves the sum of all balances unchanged.
C4_SumOfBalancesConserved ==
    [][SumBalances(balances') = SumBalances(balances)]_vars

\* a transfer_from has just moved value out of A
C4_Witness ==
    /\ last.op = "transfer_from"
    /\ last.result = "Ok"
    /\ balances["A"] < MaxSupply

\* c carries the signer and nonce of a permit accepted earlier
SameSignerAndNonce(c) ==
    \E e \in accepted : e.signer = Signer(c) /\ e.nonce = c.nonce

\* C5 as stated: of two submissions with the same signer and nonce at most
\* one succeeds; once one is accepted the other fails with InvalidNonce and
\* moves no value.
C5_SecondSubmissionInvalidNonce ==
    \A c \in ClaimCalls :
        SameSignerAndNonce(c) =>
            /\ Claim(c).res = invalid_nonce_error
            /\ AfterClaim(c).balances = balances

\* C5 as amended: of two submissions with the same signer and nonce at most
\* one succeeds; once one is accepted the other moves no value, changes no
\* nonce and fails, with Expired if its own deadline has passed and with
\* InvalidNonce otherwise.
C5_SecondSubmissionFails ==
    \A c \in ClaimCalls :
        SameSignerAndNonce(c) =>
            /\ Claim(c).res = IF blocktime > c.deadline THEN expired_error
                              ELSE invalid_nonce_error
            /\ AfterClaim(c).balances = balances
            /\ AfterClaim(c).nonces = nonces

\* two permits of A were accepted and a further claim was rejected for its nonce
C5_Witness ==
    /\ last.op = "claim_payment"
    /\ last.result = invalid_nonce_error
    /\ Cardinality(accepted) = 2

\* the signature is one the signer made, but for another contract or for
\* other values of recipient, amount, nonce or deadline than the call's
SignedForOtherPermit(c) ==
    /\ c.signature.kind = "signed"
    /\ c.signature.key = c.user_pubkey
    /\ c.signature.msg # PermitMessage(get_contract_hash, c.recipient, c.amount, c.nonce,
                                       c.deadline)

\* C6: a permit signed for another contract instance, or for a different
\* recipient, amount, nonce or deadline than the call carries, is never
\* accepted, and is rejected with InvalidSignature once the deadline and
\* nonce checks have passed.
C6_PermitBoundToContractAndFields ==
    \A c \in ClaimCalls :
        SignedForOtherPermit(c) =>
            /\ Claim(c).res # "Ok"
            /\ (blocktime <= c.deadline /\ c.nonce = nonces[Signer(c)])
                   => Claim(c).res = invalid_signature_error

\* apart from its deadline the permit would be honoured
OtherwiseValid(c) ==
    /\ c.nonce = nonces[Signer(c)]
    /\ SignatureVerifies(c)
    /\ (c.recipient = Signer(c) \/ balances[Signer(c)] >= c.amount)

\* C7: claim_payment fails with Expired exactly when the block time is
\* strictly greater than the deadline; with deadline = block time an
\* otherwise valid permit succeeds, with deadline = block time - 1 the call
\* fails with Expired.
C7_ExpiredIffPastDeadline ==
    \A c \in ClaimCalls :
        /\ (Claim(c).res = expired_error) <=> (blocktime > c.deadline)
        /\ (c.deadline = blocktime /\ OtherwiseValid(c)) => Claim(c).res = "Ok"
        /\ (c.deadline = blocktime - 1) => Claim(c).res = expired_error

\* the only accepted permit had deadline 1 and was accepted at block time 1
C7_Witness ==
    /\ last.op = "claim_payment"
    /\ last.result = "Ok"
    /\ blocktime = 1
    /\ accepted = {[signer |-> "A", nonce |-> 0, deadline |-> 1]}

\* C8: in every step every account's nonce does not decrease; it changes
\* only in an accepted claim_payment signed by that account, which carried
\* the account's current nonce, a nonce not accepted for it before, and
\* moved it up by exactly 1.
C8_NonceDiscipline ==
    [][\A a \in Accounts :
          /\ nonces'[a] >= nonces[a]
          /\ nonces'[a] # nonces[a] =>
                /\ ClaimAccepted
                /\ nonces'[a] = nonces[a] + 1
                /\ \E e \in accepted' \ accepted :
                      /\ e.signer = a
                      /\ e.nonce = nonces[a]
                      /\ \A e0 \in accepted : ~(e0.signer = a /\ e0.nonce = e.nonce)
          /\ (ClaimAccepted /\ nonces'[a] = nonces[a]) =>
                \A e \in accepted' \ accepted : e.signer # a]_vars

\* nonce(A) has advanced twice and a transfer_from ran afterwards
C8_Witness ==
    /\ nonces["A"] = 2
    /\ last.op = "transfer_from"
    /\ Cardinality(accepted) = 2

\* balances after `amount` is debited from `from` and credited to `to`
Moved(b, from, to, amount) ==
    [a \in Accounts |-> b[a] - (IF a = from THEN amount ELSE 0)
                            + (IF a = to THEN amount ELSE 0)]

\* C9: when the deadline has not passed, the nonce is the signer's current
\* nonce, the signature verifies and balance(signer) >= amount, the call
\* succeeds, debits the signer by amount, credits the recipient by amount,
\* leaves every other balance alone and moves nonce(signer) up by 1.
C9_ValidPermitIsHonoured ==
    \A c \in ClaimCalls :
        ( /\ blocktime <= c.deadline
          /\ c.nonce = nonces[Signer(c)]
          /\ SignatureVerifies(c)
          /\ balances[Signer(c)] >= c.amount )
        => /\ Claim(c).res = "Ok"
           /\ AfterClaim(c).balances = Moved(balances, Signer(c), c.recipient, c.amount)
           /\ AfterClaim(c).nonces = [nonces EXCEPT ![Signer(c)] = @ + 1]

\* A held the whole supply, a permit for 1 to B was accepted: A is down by
\* 1, B holds 1, nonce(A) is 1
C9_Witness ==
    /\ last.op = "claim_payment"
    /\ last.result = "Ok"
    /\ balances = [a \in Accounts |-> IF a = "A" THEN MaxSupply - 1
                                      ELSE IF a = "B" THEN 1 ELSE 0]
    /\ nonces["A"] = 1

\* C10: transfer from `from` to another account fails with
\* InsufficientBalance and changes no balance when balance(from) < amount;
\* otherwise it succeeds, debits from by amount and credits to by amount.
\* No state between the debit and the credit is reachable: in every state
\* the balances add up to the supply.
C10_TransferAllOrNothing ==
    /\ SumBalances(balances) = MaxSupply
    /\ \A from \in Accounts, to \in Accounts, amount \in Amounts :
          from # to =>
            LET out == transfer(Storage, from, to, amount)
                after == unwrap_or_revert(out, Storage)
            IN IF balances[from] < amount
               THEN /\ out.res = insufficient_balance_error
                    /\ after.balances = balances
               ELSE /\ out.res = "Ok"
                    /\ after.balances = Moved(balances, from, to, amount)

\* after value had moved out of A, a transfer was refused for lack of balance
C10_Witness ==
    /\ last.op = "transfer"
    /\ last.result = insufficient_balance_error
    /\ balances["A"] = MaxSupply - 1

\* C11: transfer(x, x, amount), for every account x and every amount, also
\* one greater than balance(x), returns success, changes no balance (nor
\* anything else in storage) and emits no Transfer event.
C11_SelfTransferIsNoOp ==
    \A x \in Accounts, amount \in Amounts :
        LET out == transfer(Storage, x, x, amount)
        IN /\ out.res = "Ok"
           /\ out.st.balances = balances
           /\ out.st.emitted = <<>>
           /\ out.st = Storage

\* a transfer has just succeeded without emitting an event (only a transfer
\* to the caller itself does), in a state where no account holds more than 1,
\* so the self-transfers of an amount above the balance are among those checked
C11_Witness ==
    /\ last.op = "transfer"
    /\ last.result = "Ok"
    /\ last.events = <<>>
    /\ \A a \in Accounts : get_balance(Storage, a) < MaxSupply

\* the transfer_from(owner, to, amount) that spender calls in the current state
TransferFromCall(spender, owner, to, amount) ==
    transfer_from(Storage, spender, owner, to, amount)

\* the storage after that call, as the next call sees it
AfterTransferFrom(spender, owner, to, amount) ==
    unwrap_or_revert(TransferFromCall(spender, owner, to, amount), Storage)

\* C12: transfer_from(owner, to, amount) called by spender fails with
\* InsufficientAllowance and changes nothing when allowance(owner, spender) <
\* amount; when it succeeds, allowance(owner, spender) is lower by exactly
\* amount, no other allowance has changed and amount has moved from owner
\* to `to`.
C12_TransferFromSpendsAllowance ==
    \A spender \in Accounts, owner \in Accounts, to \in Accounts, amount \in Amounts :
        LET out == TransferFromCall(spender, owner, to, amount)
            after == AfterTransferFrom(spender, owner, to, amount)
        IN IF get_allowance(Storage, owner, spender) < amount
           THEN /\ out.res = insufficient_allowance_error
                /\ after = Storage
           ELSE /\ out.res \in {"Ok", insufficient_balance_error}
                /\ out.res = "Ok" =>
                      /\ \A o \in Accounts, s \in Accounts :
                            get_allowance(after, o, s) =
                                get_allowance(Storage, o, s)
                                    - (IF o = owner /\ s = spender THEN amount ELSE 0)
                      /\ \A a \in Accounts :
                            get_balance(after, a) =
                                get_balance(Storage, a) - (IF a = owner THEN amount ELSE 0)
                                                        + (IF a = to THEN amount ELSE 0)

\* A approved B for MaxSupply and B then moved 1 of it from A to the zero
\* account: the allowance is down to MaxSupply - 1 and the recipient holds 1
C12_Witness ==
    /\ last.op = "transfer_from"
    /\ last.result = "Ok"
    /\ get_allowance(Storage, "A", "B") = MaxSupply - 1
    /\ get_balance(Storage, "A") = MaxSupply - 1
    /\ get_balance(Storage, ZeroAccount) = 1
    /\ get_balance(Storage, "B") = 0

\* C13: in every transfer_from call the decrease of allowance(owner, spender)
\* equals the amount by which balance(owner) decreases in that call, also
\* when `to` is the owner.
C13_AllowanceDecreaseIsAmountMoved ==
    \A spender \in Accounts, owner \in Accounts, to \in Accounts, amount \in Amounts :
        LET after == AfterTransferFrom(spender, owner, to, amount)
        IN get_allowance(Storage, owner, spender) - get_allowance(after, owner, spender)
               = get_balance(Storage, owner) - get_balance(after, owner)

\* C14: arithmetic overflow is fatal and never wraps.  When nonce(a) is
\* u64::MAX, increment_nonce(a) aborts, and a claim_payment carrying that
\* nonce leaves nonce(a) at u64::MAX instead of storing 0; a transfer whose
\* credit would take the recipient's balance above U256::MAX aborts and
\* changes no balance.
C14_OverflowIsFatal ==
    /\ \A a \in Accounts :
          nonces[a] = u64_MAX => increment_nonce(Storage, a).res = Trap
    /\ \A recipient \in Accounts, amount \in LimitAmounts :
          nonces["A"] = u64_MAX =>
              AfterClaim(CurrentPermit(recipient, amount)).nonces["A"] = u64_MAX
    /\ \A from \in Accounts, to \in Accounts, amount \in LimitAmounts :
          (from # to /\ balances[from] >= amount /\ balances[to] + amount > U256_MAX) =>
              /\ transfer(Storage, from, to, amount).res = Trap
              /\ unwrap_or_revert(transfer(Storage, from, to, amount), Storage).balances
                     = balances

\* C15: for every account that no operation has written, get_nonce and
\* get_balance return 0 and get_allowance returns 0 for every pair the
\* account is part of; each read returns a value of its type, none fails.
C15_UnwrittenReadsZero ==
    \A a \in Accounts :
        /\ get_nonce(Storage, a) \in 0..u64_MAX
        /\ get_balance(Storage, a) \in 0..U256_MAX
        /\ a \notin DOMAIN nonces => get_nonce(Storage, a) = 0
        /\ a \notin DOMAIN balances => get_balance(Storage, a) = 0
        /\ \A b \in Accounts :
              /\ get_allowance(Storage, a, b) \in 0..U256_MAX
              /\ <<a, b>> \notin DOMAIN allowances => get_allowance(Storage, a, b) = 0
              /\ <<b, a>> \notin DOMAIN allowances => get_allowance(Storage, b, a) = 0

\* A's permit to the zero account was accepted: A's balance and nonce and the
\* zero account's balance have entries, B has none in any dictionary
C15_Witness ==
    /\ last.op = "claim_payment"
    /\ last.result = "Ok"
    /\ DOMAIN balances = {"A", ZeroAccount}
    /\ DOMAIN nonces = {"A"}
    /\ DOMAIN allowances = {}

\* the message the installed claim_payment rebuilds for the call c when it
\* runs at block time `now`
ReconstructedMessage(now, c) ==
    IF impl = "permit"
    THEN do_claim_payment_message(c.recipient, c.amount, c.nonce, c.deadline)
    ELSE contract_full_message(now, c.recipient, c.amount, c.nonce, c.deadline)

\* C16: the message claim_payment rebuilds depends only on the prefix, the
\* chain identifier, the contract and the call's recipient, amount, nonce
\* and deadline: the same call rebuilds the same message at every block time.
C16_MessageIndependentOfBlockTime ==
    \A c \in ClaimCalls : \A t1 \in Times, t2 \in Times :
        ReconstructedMessage(t1, c) = ReconstructedMessage(t2, c)

\* ------------------------------------------------- facilitator properties
\* the admin operations and their arguments
AdminCallInputs ==
    {<<"add_supported_token", t>> : t \in Tokens}
    \cup {<<"remove_supported_token", t>> : t \in Tokens}
    \cup {<<"add_signer", k, w>> : k \in AllKeys, w \in SignerWeights}
    \cup {<<"remove_signer", a>> : a \in FacilitatorCallers}
    \cup {<<"pause_contract">>, <<"unpause_contract">>}

\* the result and working storage of the admin operation c called by caller
AdminCall(fs, caller, c) ==
    CASE c[1] = "add_supported_token" -> do_add_supported_token(fs, caller, c[2])
      [] c[1] = "remove_supported_token" -> do_remove_supported_token(fs, caller, c[2])
      [] c[1] = "add_signer" -> do_add_signer(fs, caller, c[2], c[3])
      [] c[1] = "remove_signer" -> do_remove_signer(fs, caller, c[2])
      [] c[1] = "pause_contract" -> do_pause_contract(fs, caller)
      [] c[1] = "unpause_contract" -> do_unpause_contract(fs, caller)

\* the named keys the contract holds once the call has returned or reverted
AfterCall(out) == stored(unwrap_or_revert(out, FacilitatorStorage))

\* the storage a call made after `out` starts from
NextCall(out) == [unwrap_or_revert(out, FacilitatorStorage) EXCEPT !.emitted = <<>>]

ProcessCall(fs, transaction_data, fee_token) ==
    do_process_transaction(fs, "signature", transaction_data, fee_token)

\* C17: each of the six admin operations, called with any arguments by an
\* account other than the admin, fails with PermissionDenied and leaves the
\* supported-token list, the signer pool and the paused flag as they were.
C17_NonAdminDenied ==
    \A caller \in FacilitatorCallers \ {get_admin(FacilitatorStorage)} :
        \A c \in AdminCallInputs :
            LET out == AdminCall(FacilitatorStorage, caller, c)
            IN /\ out.res = PermissionDenied
               /\ AfterCall(out).supported_tokens = facilitator.supported_tokens
               /\ AfterCall(out).signer_pool = facilitator.signer_pool
               /\ AfterCall(out).is_paused = facilitator.is_paused

\* a non-admin call was refused while the list and the pool hold entries
C17_Witness ==
    /\ last.op \in {"add_supported_token", "remove_supported_token", "add_signer",
                    "remove_signer", "pause_contract", "unpause_contract"}
    /\ last.result = PermissionDenied
    /\ facilitator.supported_tokens # <<>>
    /\ facilitator.signer_pool # <<>>

\* C18: while the contract is paused every process_transaction and every
\* estimate_fees fails with PermissionDenied; an admin operation called by the
\* admin has the result it has when the contract is not paused (adding a token
\* that is not in the list succeeds); unpausing by the admin succeeds, and
\* whenever the contract is not paused, right after the unpause included, a
\* process_transaction with non-empty data and a fee token in the list
\* succeeds.
C18_PauseBlocksTransactions ==
    LET fs == FacilitatorStorage
        admin == get_admin(fs)
        unpause == do_unpause_contract(fs, admin)
    IN /\ is_paused(fs) =>
            /\ \A d \in TransactionData, t \in FeeTokens :
                   ProcessCall(fs, d, t).res = PermissionDenied
            /\ \A u \in BOOLEAN, r \in BOOLEAN :
                   estimate_transaction_fees(fs, 1, 1, u, r).res = PermissionDenied
            /\ \A c \in AdminCallInputs :
                   AdminCall(fs, admin, c).res = AdminCall(set_paused(fs, FALSE), admin, c).res
            /\ \A t \in Tokens :
                   ~contains(get_supported_tokens(fs), t)
                       => do_add_supported_token(fs, admin, t).res = "Ok"
            /\ unpause.res = "Ok"
            /\ \A d \in TransactionData \ {<<>>}, t \in Tokens :
                   contains(get_supported_tokens(fs), t)
                       => ProcessCall(NextCall(unpause), d, <<t>>).res = "Ok"
       /\ ~is_paused(fs) =>
            \A d \in TransactionData \ {<<>>}, t \in Tokens :
                contains(get_supported_tokens(fs), t) => ProcessCall(fs, d, <<t>>).res = "Ok"

\* a transaction that pays a fee token was processed after a pause and an unpause
C18_Witness ==
    /\ last.op = "process_transaction"
    /\ last.result = "Ok"
    /\ last.events[1].data[1][4]
    /\ {"ContractPaused", "ContractUnpaused"} \subseteq facilitator.named_keys

NoDuplicateTokens ==
    \A i, j \in 1..Len(facilitator.supported_tokens) :
        facilitator.supported_tokens[i] = facilitator.supported_tokens[j] => i = j

\* C19 as stated, for every caller: the supported-token list never holds a
\* token twice; add_supported_token of a token in the list and
\* remove_supported_token of a token not in it fail with InvalidArgument and
\* leave the list unchanged.
C19_AddRemoveFailInvalidArgument ==
    /\ NoDuplicateTokens
    /\ \A caller \in FacilitatorCallers, t \in Tokens :
          LET add == do_add_supported_token(FacilitatorStorage, caller, t)
              rem == do_remove_supported_token(FacilitatorStorage, caller, t)
          IN IF contains(facilitator.supported_tokens, t)
             THEN /\ add.res = InvalidArgument
                  /\ AfterCall(add).supported_tokens = facilitator.supported_tokens
             ELSE /\ rem.res = InvalidArgument
                  /\ AfterCall(rem).supported_tokens = facilitator.supported_tokens

\* C19 amended: the supported-token list never holds a token twice; called by
\* the admin, add_supported_token of a token in the list and
\* remove_supported_token of a token not in it fail with InvalidArgument;
\* called by anyone else they fail with PermissionDenied; either way the list
\* is unchanged.
C19_NoDuplicateTokens ==
    /\ NoDuplicateTokens
    /\ \A caller \in FacilitatorCallers, t \in Tokens :
          LET add == do_add_supported_token(FacilitatorStorage, caller, t)
              rem == do_remove_supported_token(FacilitatorStorage, caller, t)
              error == IF caller = get_admin(FacilitatorStorage) THEN InvalidArgument
                       ELSE PermissionDenied
          IN IF contains(facilitator.supported_tokens, t)
             THEN /\ add.res = error
                  /\ AfterCall(add).supported_tokens = facilitator.supported_tokens
             ELSE /\ rem.res = error
                  /\ AfterCall(rem).supported_tokens = facilitator.supported_tokens

\* the admin's add of a token in the list was refused with both tokens listed
C19_Witness ==
    /\ last.op = "add_supported_token"
    /\ last.result = InvalidArgument
    /\ Len(facilitator.supported_tokens) = Cardinality(Tokens)

\* C20 as stated, in every state: process_transaction with a fee token
\* succeeds only if the token is in the supported-token list; with a token
\* not in the list (never added, or added and removed) it fails with
\* InvalidArgument; with empty data it fails with InvalidArgument.
C20_UnsupportedTokenInvalidArgument ==
    LET fs == FacilitatorStorage
    IN /\ \A d \in TransactionData, t \in Tokens :
              /\ ProcessCall(fs, d, <<t>>).res = "Ok" => contains(get_supported_tokens(fs), t)
              /\ ~contains(get_supported_tokens(fs), t)
                    => ProcessCall(fs, d, <<t>>).res = InvalidArgument
       /\ \A t \in FeeTokens : ProcessCall(fs, <<>>, t).res = InvalidArgument

\* C20 amended: process_transaction with a fee token succeeds only if the
\* token is in the supported-token list; while the contract is not paused it
\* fails with InvalidArgument for a token not in the list and for empty
\* data; while the contract is paused it fails with PermissionDenied whatever
\* its arguments.  A failed call leaves the named keys unchanged.
C20_UnsupportedTokenRejected ==
    LET fs == FacilitatorStorage
        error == IF is_paused(fs) THEN PermissionDenied ELSE InvalidArgument
    IN /\ \A d \in TransactionData, t \in Tokens :
              /\ ProcessCall(fs, d, <<t>>).res = "Ok" => contains(get_supported_tokens(fs), t)
              /\ ~contains(get_supported_tokens(fs), t)
                    => /\ ProcessCall(fs, d, <<t>>).res = error
                       /\ AfterCall(ProcessCall(fs, d, <<t>>)) = facilitator
       /\ \A t \in FeeTokens :
              /\ ProcessCall(fs, <<>>, t).res = error
              /\ AfterCall(ProcessCall(fs, <<>>, t)) = facilitator

\* a process_transaction was refused with InvalidArgument after a token was
\* added and removed, in a state where each token is refused
C20_Witness ==
    /\ last.op = "process_transaction"
    /\ last.result = InvalidArgument
    /\ {"TokenAdded", "TokenRemoved"} \subseteq facilitator.named_keys
    /\ facilitator.supported_tokens = <<>>
    /\ \A t \in Tokens : ProcessCall(FacilitatorStorage, <<0>>, <<t>>).res = InvalidArgument

InPool(account) ==
    \E i \in 1..Len(facilitator.signer_pool) : facilitator.signer_pool[i].account_hash = account

NoDuplicateSigners ==
    \A i, j \in 1..Len(facilitator.signer_pool) :
        facilitator.signer_pool[i].account_hash = facilitator.signer_pool[j].account_hash
            => i = j

\* what add_signer and remove_signer do for a caller to whom a refused call
\* reports error[caller]
SignerPoolDiscipline(error) ==
    /\ NoDuplicateSigners
    /\ \A caller \in FacilitatorCallers, k \in AllKeys, w \in SignerWeights :
          LET add == do_add_signer(FacilitatorStorage, caller, k, w)
          IN /\ InPool(account_hash(k))
                  => /\ add.res = error[caller]
                     /\ AfterCall(add).signer_pool = facilitator.signer_pool
             /\ add.res = "Ok"
                  => AfterCall(add).signer_pool =
                         Append(facilitator.signer_pool,
                                [account_hash |-> account_hash(k), public_key |-> k,
                                 weight |-> w, is_active |-> TRUE])
    /\ \A k \in AllKeys, w \in SignerWeights :
          ~InPool(account_hash(k))
              => do_add_signer(FacilitatorStorage, get_admin(FacilitatorStorage), k, w).res = "Ok"
    /\ \A caller \in FacilitatorCallers, a \in FacilitatorCallers :
          LET rem == do_remove_signer(FacilitatorStorage, caller, a)
          IN ~InPool(a) => /\ rem.res = error[caller]
                           /\ AfterCall(rem).signer_pool = facilitator.signer_pool

AlwaysInvalidArgument == [caller \in FacilitatorCallers |-> InvalidArgument]
AdminInvalidArgument ==
    [caller \in FacilitatorCallers |->
        IF caller = get_admin(FacilitatorStorage) THEN InvalidArgument ELSE PermissionDenied]

\* C21 as stated, for every caller: the signer pool never holds two entries
\* with the same account hash; add_signer for a key whose account is in the
\* pool fails with InvalidArgument whatever the weight and leaves the pool
\* unchanged; remove_signer of an account not in the pool fails with
\* InvalidArgument; a signer that was added is the last entry of the pool,
\* active, with the weight given.
C21_SignerCallsFailInvalidArgument == SignerPoolDiscipline(AlwaysInvalidArgument)

\* C21 amended: as above with the error InvalidArgument when the admin calls,
\* and PermissionDenied when any other account calls; the admin's add_signer
\* for a key whose account is not in the pool succeeds.
C21_NoDuplicateSigners == SignerPoolDiscipline(AdminInvalidArgument)

\* the admin's add_signer for an account in the pool, with the other weight,
\* was refused
C21_Witness ==
    /\ last.op = "add_signer"
    /\ last.result = InvalidArgument
    /\ Len(facilitator.signer_pool) = Cardinality(AllKeys)
    /\ \E w \in SignerWeights :
          /\ w # facilitator.signer_pool[1].weight
          /\ do_add_signer(FacilitatorStorage, get_admin(FacilitatorStorage),
                           facilitator.signer_pool[1].public_key, w).res = InvalidArgument

PauseSucceeded == last'.op = "pause_contract" /\ last'.result = "Ok"
UnpauseSucceeded == last'.op = "unpause_contract" /\ last'.result = "Ok"

\* C22: the facilitator starts unpaused; the admin's pause_contract and
\* unpause_contract succeed in every state; a successful pause_contract leaves
\* is_paused true, a successful unpause_contract leaves it false, and no other
\* call changes it: is_paused is true exactly when the most recent successful
\* call of the two was pause_contract.
C22_PausedIffLastWasPause ==
    /\ ~is_paused(FacilitatorStorage)
    /\ [](/\ do_pause_contract(FacilitatorStorage, get_admin(FacilitatorStorage)).res = "Ok"
          /\ do_unpause_contract(FacilitatorStorage, get_admin(FacilitatorStorage)).res = "Ok")
    /\ [][/\ PauseSucceeded => facilitator'.is_paused
          /\ UnpauseSucceeded => ~facilitator'.is_paused
          /\ ~(PauseSucceeded \/ UnpauseSucceeded)
                => facilitator'.is_paused = facilitator.is_paused]_vars

\* the contract was paused and the admin's unpause_contract has just succeeded
C22_Witness ==
    /\ last.op = "unpause_contract"
    /\ last.result = "Ok"
    /\ ~facilitator.is_paused
    /\ "ContractPaused" \in facilitator.named_keys

FacilitatorEvents ==
    {"Initialized", "TokenAdded", "TokenRemoved", "SignerAdded", "SignerRemoved",
     "ContractPaused", "ContractUnpaused", "TransactionProcessed"}

\* C23: get_admin() returns the admin given at installation in every state
\* reached by token, signer, pause, unpause, estimate_fees and
\* process_transaction calls of any caller, and no call, accepted or
\* refused, changes it.
C23_AdminFixed ==
    /\ [](get_admin(FacilitatorStorage) = FacilitatorAdmin)
    /\ [][get_admin(facilitator') = get_admin(facilitator)]_vars

\* every kind of call has succeeded at least once and a call of the other
\* account has just been refused
C23_Witness ==
    /\ facilitator.named_keys = FacilitatorEvents
    /\ last.result = PermissionDenied
    /\ get_admin(FacilitatorStorage) = FacilitatorAdmin

Members(vec) == {vec[i] : i \in 1..Len(vec)}
Reverse(vec) == [i \in 1..Len(vec) |-> vec[Len(vec) + 1 - i]]

\* sequences of distinct tokens
TokenCollections ==
    {q \in UNION {[1..n -> Tokens] : n \in 0..Cardinality(Tokens)} :
        \A i, j \in 1..Len(q) : q[i] = q[j] => i = j}

\* the storage after the admin's add_supported_token calls for the tokens
\* of q, in the order of q, starting from fs
RECURSIVE AddAll(_, _)
AddAll(fs, q) ==
    IF q = <<>> THEN fs
    ELSE LET out == do_add_supported_token(fs, get_admin(fs), Head(q))
             next == IF out.res = "Ok" THEN [out.st EXCEPT !.emitted = <<>>] ELSE fs
         IN AddAll(next, Tail(q))

\* C24: from every state, the admin adding a collection of distinct tokens in
\* one order and adding it in the reverse order give lists with the same
\* members: the members the list had and the tokens of the collection.
C24_AddOrderIndependent ==
    \A q \in TokenCollections :
        LET forward == get_supported_tokens(AddAll(FacilitatorStorage, q))
            backward == get_supported_tokens(AddAll(FacilitatorStorage, Reverse(q)))
        IN /\ Members(forward) = Members(backward)
           /\ Members(forward) = Members(facilitator.supported_tokens) \cup Members(q)

\* the tokens were added in one order, and adding them to the empty list in
\* the reverse order gives a different list with the same members
C24_Witness ==
    /\ last.op = "add_supported_token"
    /\ last.result = "Ok"
    /\ Len(facilitator.supported_tokens) = Cardinality(Tokens)
    /\ LET other == get_supported_tokens(
                        AddAll(InstalledFacilitator, Reverse(facilitator.supported_tokens)))
       IN /\ other # facilitator.supported_tokens
          /\ Members(other) = Members(facilitator.supported_tokens)

\* --------------------------------------------------- token properties, II
\* C25: claim_payment reports the first failure in the order deadline, nonce,
\* signature, balance: Expired for an expired permit whatever else is wrong,
\* InvalidNonce for a wrong nonce whatever the signature and the balance,
\* InvalidSignature for a signature that does not verify whatever the
\* balance, and InsufficientBalance only when the three earlier checks pass.
C25_ErrorsInCheckOrder ==
    \A c \in ClaimCalls :
        LET expired == blocktime > c.deadline
            wrong_nonce == c.nonce # get_nonce(Storage, Signer(c))
            bad_signature == ~SignatureVerifies(c)
            short == get_balance(Storage, Signer(c)) < c.amount
        IN /\ expired => Claim(c).res = expired_error
           /\ (~expired /\ wrong_nonce) => Claim(c).res = invalid_nonce_error
           /\ (~expired /\ ~wrong_nonce /\ bad_signature)
                  => Claim(c).res = invalid_signature_error
           /\ Claim(c).res = insufficient_balance_error
                  => (~expired /\ ~wrong_nonce /\ ~bad_signature /\ short)

\* C26: a transfer_from with allowance(owner, spender) >= amount and
\* balance(owner) < amount fails with InsufficientBalance and leaves every
\* allowance and every balance as it was; with the allowance and the balance
\* both below amount it fails with InsufficientAllowance.
C26_InsufficientBalanceKeepsAllowance ==
    \A spender \in Accounts, owner \in Accounts, to \in Accounts, amount \in Amounts :
        LET out == TransferFromCall(spender, owner, to, amount)
            after == AfterTransferFrom(spender, owner, to, amount)
        IN get_balance(Storage, owner) < amount =>
              IF get_allowance(Storage, owner, spender) >= amount
              THEN /\ out.res = insufficient_balance_error
                   /\ \A o \in Accounts, s \in Accounts :
                         get_allowance(after, o, s) = get_allowance(Storage, o, s)
                   /\ \A a \in Accounts : get_balance(after, a) = get_balance(Storage, a)
              ELSE out.res = insufficient_allowance_error

TokenEntryPoints == {"transfer", "approve", "transfer_from", "claim_payment"}

\* C27: the output channel are the named keys "event_<name>", each holding
\* the data of one event.  Every event emitted by a successful call adds an
\* entry to the channel, so that the channel holds one entry per event
\* emitted and an event is not lost to a later event of the same name.
C27_EveryEventAppended ==
    [][(last'.op \in TokenEntryPoints /\ last'.result = "Ok")
          => Cardinality(named_keys') = Cardinality(named_keys) + Len(last'.events)]_vars

PaymentClaimedEvent(c) ==
    [name |-> PAYMENT_CLAIMED_EVENT, data |-> <<Signer(c), c.recipient, c.amount, c.nonce>>]

TransferEventOf(c) ==
    [name |-> TRANSFER_EVENT, data |-> <<Signer(c), c.recipient, c.amount>>]

\* C28 as stated: a claim_payment that succeeds emits the Transfer event of
\* the payment and after it one PaymentClaimed event carrying the signer
\* account, the recipient, the amount and the nonce supplied in the call; a
\* claim_payment that fails emits no PaymentClaimed event.
C28_PaymentClaimedAfterTransfer ==
    \A c \in ClaimCalls :
        IF Claim(c).res = "Ok"
        THEN Claim(c).st.emitted = <<TransferEventOf(c), PaymentClaimedEvent(c)>>
        ELSE \A i \in 1..Len(Claim(c).st.emitted) :
                 Claim(c).st.emitted[i].name # PAYMENT_CLAIMED_EVENT

\* C28 amended: a claim_payment that succeeds emits one PaymentClaimed event,
\* as the last event of the call, carrying the signer account, the recipient,
\* the amount and the nonce supplied in the call; the only other event of the
\* call is the Transfer event of the payment, emitted before it (a payment to
\* the signer itself moves nothing and emits no Transfer event).  A
\* claim_payment that fails emits no event and leaves the named keys as they
\* were.
C28_OnePaymentClaimedEvent ==
    \A c \in ClaimCalls :
        LET out == Claim(c)
            after == unwrap_or_revert(out, Storage)
        IN IF out.res = "Ok"
           THEN out.st.emitted =
                   (IF c.recipient = Signer(c) THEN <<>> ELSE <<TransferEventOf(c)>>)
                       \o <<PaymentClaimedEvent(c)>>
           ELSE /\ \A i \in 1..Len(out.st.emitted) :
                       out.st.emitted[i].name # PAYMENT_CLAIMED_EVENT
                /\ after.emitted = <<>>
                /\ after.named_keys = named_keys

\* a permit with nonce 1 was accepted: the call emitted Transfer and then
\* PaymentClaimed with nonce 1, and the stored nonce is 2
C28_Witness ==
    /\ last.op = "claim_payment"
    /\ last.result = "Ok"
    /\ Len(last.events) = 2
    /\ last.events[1].name = TRANSFER_EVENT
    /\ last.events[2].name = PAYMENT_CLAIMED_EVENT
    /\ last.events[2].data[4] = 1
    /\ get_nonce(Storage, last.events[2].data[1]) = 2

ApproveCall(owner, spender, amount) == approve(Storage, owner, spender, amount)
AfterApprove(owner, spender, amount) ==
    unwrap_or_revert(ApproveCall(owner, spender, amount), Storage)

\* C29: approve(spender, amount) by any owner succeeds for every amount, 0
\* included, and leaves allowance(owner, spender) = amount whatever it was;
\* every other allowance, every balance and every nonce is as before, and
\* the same approve made again leaves the storage as the first left it.
C29_ApproveSetsAllowance ==
    \A owner \in Accounts, spender \in Accounts, amount \in 0..MaxSupply :
        LET out == ApproveCall(owner, spender, amount)
            after == AfterApprove(owner, spender, amount)
            again == approve([after EXCEPT !.emitted = <<>>], owner, spender, amount)
        IN /\ out.res = "Ok"
           /\ get_allowance(after, owner, spender) = amount
           /\ \A o \in Accounts, sp \in Accounts :
                 <<o, sp>> # <<owner, spender>>
                     => dict_get(after.allowances, <<o, sp>>)
                            = dict_get(allowances, <<o, sp>>)
           /\ after.balances = balances
           /\ after.nonces = nonces
           /\ again.res = "Ok"
           /\ again.st.allowances = after.allowances
           /\ again.st.balances = after.balances
           /\ again.st.nonces = after.nonces

\* an approve has just set allowance(A, B) to MaxSupply after value had
\* moved, and an approve of 1 made now would overwrite it with 1
C29_Witness ==
    /\ last.op = "approve"
    /\ last.result = "Ok"
    /\ get_allowance(Storage, "A", "B") = MaxSupply
    /\ get_balance(Storage, "A") < MaxSupply
    /\ get_allowance(AfterApprove("A", "B", 1), "A", "B") = 1

\* the named keys process_transaction is said to leave alone
FacilitatorState(fs) ==
    [admin |-> fs.admin, is_paused |-> fs.is_paused,
     supported_tokens |-> fs.supported_tokens, signer_pool |-> fs.signer_pool]

\* C30: a process_transaction call, accepted or refused, with any data and
\* any fee token, leaves the supported-token list, the signer pool, the
\* paused flag and the admin exactly as they were; so does every step of the
\* contract that is a process_transaction call.
C30_ProcessTransactionFrame ==
    /\ [](\A d \in TransactionData, t \in FeeTokens :
             FacilitatorState(AfterCall(ProcessCall(FacilitatorStorage, d, t)))
                 = FacilitatorState(facilitator))
    /\ [][last'.op = "process_transaction"
             => FacilitatorState(facilitator') = FacilitatorState(facilitator)]_vars

\* a transaction was processed with both tokens listed and both signers in
\* the pool
C30_Witness ==
    /\ last.op = "process_transaction"
    /\ last.result = "Ok"
    /\ Len(facilitator.supported_tokens) = Cardinality(Tokens)
    /\ Len(facilitator.signer_pool) = Cardinality(AllKeys)
    /\ "TransactionProcessed" \in facilitator.named_keys

\* --------------------------------------------------- token properties, III
\* the call c made on the storage st at the current block time
ClaimOn(st, c) ==
    claim_payment(st, blocktime, c.user_pubkey, c.recipient, c.amount, c.nonce, c.deadline,
                  c.signature)

NoAllowances(st) == [st EXCEPT !.allowances = [p \in DOMAIN @ |-> 0]]

\* C31: a claim_payment for signer S, accepted or refused, leaves every
\* allowance as it was and leaves nonce(a) as it was for every account a
\* other than S, whatever value nonce(a) holds; its result and the balances
\* it leaves are those of the same call made with every allowance at 0.
C31_ClaimLeavesAllowancesAndOtherNonces ==
    \A c \in ClaimCalls, n \in 1..MaxNonce :
        LET st == set_nonce(Storage, "B", n)
            out == ClaimOn(st, c)
            after == unwrap_or_revert(out, st)
            bare == ClaimOn(NoAllowances(st), c)
        IN /\ after.allowances = allowances
           /\ \A a \in Accounts \ {Signer(c)} : get_nonce(after, a) = get_nonce(st, a)
           /\ bare.res = out.res
           /\ bare.st.balances = out.st.balances

\* a permit of A was accepted while allowance(A, B) was MaxSupply and the
\* allowance is still MaxSupply
C31_Witness ==
    /\ last.op = "claim_payment"
    /\ last.result = "Ok"
    /\ get_allowance(Storage, "A", "B") = MaxSupply
    /\ get_balance(Storage, "A") < MaxSupply
    /\ get_nonce(Storage, "A") > 0

\* C32: a claim_payment whose recipient is the signer's own account, with
\* the deadline not passed, the signer's current nonce and a signature that
\* verifies, succeeds for every amount, also one above balance(signer): no
\* balance changes, nonce(signer) goes up by 1, and the one event of the call
\* is PaymentClaimed.
C32_SelfPaymentSucceeds ==
    \A c \in ClaimCalls :
        ( /\ c.recipient = Signer(c)
          /\ blocktime <= c.deadline
          /\ c.nonce = get_nonce(Storage, Signer(c))
          /\ SignatureVerifies(c) )
        => /\ Claim(c).res = "Ok"
           /\ AfterClaim(c).balances = balances
           /\ AfterClaim(c).nonces = [nonces EXCEPT ![Signer(c)] = @ + 1]
           /\ AfterClaim(c).emitted = <<PaymentClaimedEvent(c)>>

\* a permit of A paying MaxSupply to A was accepted while A held less
C32_Witness ==
    /\ last.op = "claim_payment"
    /\ last.result = "Ok"
    /\ last.events = <<[name |-> PAYMENT_CLAIMED_EVENT,
                        data |-> <<"A", "A", MaxSupply, get_nonce(Storage, "A") - 1>>]>>
    /\ get_balance(Storage, "A") < MaxSupply

\* C33: from every state, at the same block time and with the same
\* arguments, claim_payment submitted by one caller and submitted by another
\* return the same result and leave the same balances, nonces and
\* allowances (and emit the same events).
C33_OutcomeIndependentOfCaller ==
    \A c \in ClaimCalls, caller1 \in Accounts, caller2 \in Accounts :
        LET run1 == claim_payment_entry_point(Storage, caller1, blocktime, c)
            run2 == claim_payment_entry_point(Storage, caller2, blocktime, c)
        IN /\ run1.res = run2.res
           /\ unwrap_or_revert(run1, Storage) = unwrap_or_revert(run2, Storage)

\* a permit of A has been accepted, and the permit for A's current nonce
\* would be accepted from the facilitator B as from A itself
C33_Witness ==
    /\ last.op = "claim_payment"
    /\ last.result = "Ok"
    /\ get_nonce(Storage, "A") = 1
    /\ \E c \in DictClaimCalls :
          /\ claim_payment_entry_point(Storage, "B", blocktime, c).res = "Ok"
          /\ claim_payment_entry_point(Storage, "A", blocktime, c).res = "Ok"
          /\ c.recipient # "A"

\* the nonces of the permits of signer accepted so far
AcceptedNonces(signer) == {e.nonce : e \in {e0 \in accepted : e0.signer = signer}}

\* the number of accepted claim_payment calls of signer so far
AcceptedCount(signer) == Cardinality({e \in accepted : e.signer = signer})

\* C34: in every reachable state a claim_payment with nonce n for signer S
\* can succeed only if exactly n claim_payment calls for S succeeded before,
\* and these carried the nonces 0 .. n-1: permits are accepted in nonce order
\* without gaps, and nonce n+1 is never accepted before nonce n.
C34_AcceptedInNonceOrder ==
    /\ \A c \in ClaimCalls :
          Claim(c).res = "Ok"
          => /\ AcceptedCount(Signer(c)) = c.nonce
             /\ AcceptedNonces(Signer(c)) = 0..(c.nonce - 1)
    /\ \A a \in Accounts : AcceptedCount(a) = get_nonce(Storage, a)

\* the permits of A with nonce 0 and then nonce 1 were accepted, the last
\* step being the second of them
C34_Witness ==
    /\ last.op = "claim_payment"
    /\ last.result = "Ok"
    /\ AcceptedNonces("A") = {0, 1}
    /\ AcceptedCount("A") = 2
    /\ Len(last.events) > 0
    /\ last.events[Len(last.events)].name = PAYMENT_CLAIMED_EVENT
    /\ last.events[Len(last.events)].data[4] = 1

\* some claim_payment carrying the deadline fails with Expired in this state
SomeExpired(deadline) ==
    \E c \in ClaimCalls : c.deadline = deadline /\ Claim(c).res = expired_error

\* every claim_payment carrying the deadline fails with Expired in this state
AllExpired(deadline) ==
    \A c \in ClaimCalls : c.deadline = deadline => Claim(c).res = expired_error

\* C35: block time never goes back, and from a state in which a
\* claim_payment with some deadline fails with Expired on, every
\* claim_payment with that deadline fails with Expired, in that state and in
\* every later one, whatever its signer, nonce, signature, recipient or amount.
C35_ExpiredStaysExpired ==
    /\ [][blocktime' >= blocktime]_vars
    /\ \A deadline \in Times : [](SomeExpired(deadline) => []AllExpired(deadline))

\* a claim_payment with deadline 0 failed with Expired at block time 1, after
\* a permit had been accepted
C35_Witness ==
    /\ last.op = "claim_payment"
    /\ last.result = expired_error
    /\ blocktime = 1
    /\ SomeExpired(0)
    /\ accepted # {}

\* the errors a token operation reverts with
TokenErrors ==
    {insufficient_balance_error, insufficient_allowance_error, invalid_nonce_error,
     invalid_signature_error, expired_error}

\* the result of moving amount from `from` to `to`, whichever accounts they are
TransferResult(from, to, amount) ==
    IF from # to /\ get_balance(Storage, from) < amount THEN insufficient_balance_error
    ELSE "Ok"

\* the result of transfer_from, whichever accounts owner, spender and to are
TransferFromResult(spender, owner, to, amount) ==
    IF get_allowance(Storage, owner, spender) < amount THEN insufficient_allowance_error
    ELSE TransferResult(owner, to, amount)

\* C37: in every reachable state no transfer, approve, transfer_from or
\* claim_payment fails with ZeroAddress; each returns Ok or one of
\* InsufficientBalance, InsufficientAllowance, InvalidNonce, InvalidSignature
\* and Expired, and the all-zero account as recipient, spender or owner is
\* handled by the rule that holds for every account: it is credited,
\* approved and debited like any other.
C37_NoZeroAddressError ==
    /\ \A caller \in Accounts, to \in Accounts, amount \in Amounts :
          LET out == transfer(Storage, caller, to, amount)
          IN /\ out.res \in {"Ok"} \cup TokenErrors
             /\ out.res = TransferResult(caller, to, amount)
             /\ (out.res = "Ok" /\ to = ZeroAccount /\ caller # to)
                => get_balance(out.st, ZeroAccount) = get_balance(Storage, ZeroAccount) + amount
    /\ \A owner \in Accounts, spender \in Accounts, amount \in Amounts :
          /\ ApproveCall(owner, spender, amount).res = "Ok"
          /\ get_allowance(AfterApprove(owner, spender, amount), owner, spender) = amount
    /\ \A spender \in Accounts, owner \in Accounts, to \in Accounts, amount \in Amounts :
          /\ TransferFromCall(spender, owner, to, amount).res \in {"Ok"} \cup TokenErrors
          /\ TransferFromCall(spender, owner, to, amount).res
                = TransferFromResult(spender, owner, to, amount)
    /\ \A c \in ClaimCalls :
          /\ Claim(c).res \in {"Ok"} \cup TokenErrors
          /\ (c.recipient = ZeroAccount /\ blocktime <= c.deadline /\ OtherwiseValid(c))
             => /\ Claim(c).res = "Ok"
                /\ get_balance(AfterClaim(c), ZeroAccount)
                      = get_balance(Storage, ZeroAccount) + c.amount

\* a permit of A paying 1 to the all-zero account was accepted, and the
\* all-zero account now holds the whole supply
C37_Witness ==
    /\ last.op = "claim_payment"
    /\ last.result = "Ok"
    /\ last.events[1] = [name |-> TRANSFER_EVENT, data |-> <<"A", ZeroAccount, 1>>]
    /\ get_balance(Storage, ZeroAccount) = MaxSupply
    /\ get_allowance(Storage, "A", "B") = 0
    /\ get_balance(Storage, "B") = 0

\* the ledger part of a storage: what balance_of and allowance read
Ledger(st) == [balances |-> st.balances, allowances |-> st.allowances]

\* a call of cep18-permit-token and the same call of contract return the
\* same result and, once the host has committed or reverted the call, leave
\* the same ledger
SameOutcome(permit, contract) ==
    /\ permit.res = contract.res
    /\ Ledger(unwrap_or_revert(permit, Storage)) = Ledger(unwrap_or_revert(contract, Storage))

\* C38: from every state reachable by transfer, approve and transfer_from
\* from the initial mint, under either implementation, each of these calls
\* returns the same result in cep18-permit-token as in contract and leaves the
\* same balances and allowances once a failed call is rolled back; so the two
\* run side by side on one sequence of calls agree after every call.
C38_LedgerOperationsEquivalent ==
    /\ \A caller \in Accounts, to \in Accounts, amount \in 0..MaxSupply :
          SameOutcome(do_transfer(Storage, caller, to, amount),
                      contract_transfer(Storage, caller, to, amount))
    /\ \A caller \in Accounts, spender \in Accounts, amount \in 0..MaxSupply :
          SameOutcome(do_approve(Storage, caller, spender, amount),
                      contract_approve(Storage, caller, spender, amount))
    /\ \A caller \in Accounts, owner \in Accounts, to \in Accounts, amount \in 0..MaxSupply :
          SameOutcome(do_transfer_from(Storage, caller, owner, to, amount),
                      contract_transfer_from(Storage, caller, owner, to, amount))

\* a transfer_from passed the allowance check and failed on the balance: here
\* contract had already written the smaller allowance, cep18-permit-token had not
C38_Witness ==
    /\ last.op = "transfer_from"
    /\ last.result = insufficient_balance_error
    /\ get_allowance(Storage, "A", "B") > get_balance(Storage, "A")
    /\ contract_transfer_from(Storage, "B", "A", "B", 1).st.allowances # allowances
    /\ do_transfer_from(Storage, "B", "A", "B", 1).st.allowances = allowances

\* the facilitator's call and ContractState's call both succeed or both fail
SameSuccess(contract, model) == (contract.res = "Ok") <=> (model.res = "Ok")

\* the paused flag of the facilitator and that of ContractState are equal
SamePausedFlag(fs, self) == is_paused(fs) = self.is_paused

\* C39: run side by side on the same admin pause and unpause calls, the
\* facilitator and ContractState hold the same paused flag after every call,
\* and in every state so reached the admin's next pause and the admin's next
\* unpause succeed in both or fail in both and leave equal paused flags, also
\* a pause while paused and an unpause while not paused.
C39_PauseControlAgrees ==
    LET admin == get_admin(FacilitatorStorage)
        contract_pause == do_pause_contract(FacilitatorStorage, admin)
        contract_unpause == do_unpause_contract(FacilitatorStorage, admin)
    IN /\ SamePausedFlag(FacilitatorStorage, contract_state)
       /\ SameSuccess(contract_pause, ContractState_pause(contract_state, admin))
       /\ SamePausedFlag(unwrap_or_revert(contract_pause, FacilitatorStorage),
                         ContractState_pause(contract_state, admin).st)
       /\ SameSuccess(contract_unpause, ContractState_unpause(contract_state, admin))
       /\ SamePausedFlag(unwrap_or_revert(contract_unpause, FacilitatorStorage),
                         ContractState_unpause(contract_state, admin).st)

\* what does hold side by side: the paused flags are equal after every call,
\* and calls that change the flag succeed in both
PausedFlagsAgree ==
    LET admin == get_admin(FacilitatorStorage)
    IN /\ SamePausedFlag(FacilitatorStorage, contract_state)
       /\ ~is_paused(FacilitatorStorage)
          => SameSuccess(do_pause_contract(FacilitatorStorage, admin),
                         ContractState_pause(contract_state, admin))
       /\ is_paused(FacilitatorStorage)
          => SameSuccess(do_unpause_contract(FacilitatorStorage, admin),
                         ContractState_unpause(contract_state, admin))

\* the value the entry point total_supply returns
get_total_supply == total_supply

\* C36: initialization credits the whole total_supply to the deployer; in
\* every state reached by transfer, approve, transfer_from and claim_payment
\* the balances sum to the stored total_supply; and no step changes the
\* stored total_supply.
C36_BalancesSumToTotalSupply ==
    /\ get_balance(Storage, Deployer) = get_total_supply
    /\ \A a \in Accounts \ {Deployer} : get_balance(Storage, a) = 0
    /\ [](SumBalances(balances) = get_total_supply)
    /\ [][get_total_supply' = get_total_supply]_vars

\* after a transfer, an approve, a transfer_from and two accepted permits the
\* deployer holds nothing and the whole supply is with B
C36_Witness ==
    /\ get_balance(Storage, Deployer) = 0
    /\ get_balance(Storage, "B") = get_total_supply
    /\ get_nonce(Storage, Deployer) = 2
    /\ get_allowance(Storage, "A", "B") > 0
    /\ last.op = "transfer_from"

TypeOK ==
    /\ impl \in Impls
    /\ blocktime \in Times
    /\ balances \in [Accounts -> 0..MaxSupply]
    /\ nonces \in [Accounts -> 0..MaxNonce]
    /\ \A a \in Accounts : nonces[a] < u64_MAX
    /\ SumBalances(balances) <= U256_MAX

====
